---- MODULE Spec2Model ----
(***************************************************************************)
(* Selection, highlighting, picking and edge derivation of the 3D scene    *)
(* editor.  Three program units are modelled:                              *)
(*   - SceneManager (src/src/core/SceneManager.js), the manager the canvas *)
(*     constructs.  The class body defines several methods more than once; *)
(*     in a JavaScript class the LAST definition of a name is the method   *)
(*     the object has, so the operators below follow the last definitions  *)
(*     (highlightFace at 1048, highlightEdge at 1087, findClosestEdge at   *)
(*     1169, handleSelection at 1033, dispose at 1272).                    *)
(*   - SelectionManager (src/src/three/selection.js).                      *)
(*   - the singleton SceneManager of src/unnamed/part_000.                 *)
(* A handler that throws keeps the assignments it made before the throw;   *)
(* the browser reports the exception and the page goes on, so later        *)
(* handlers run from that state.                                           *)
(***************************************************************************)
EXTENDS Integers, Sequences, FiniteSets, TLC

VARIABLES sm, last, selection, legacy, geo

vars == <<sm, last, selection, legacy, geo>>

(***************************************************************************)
(* Bounds                                                                  *)
(***************************************************************************)
MaxIds == 2        \* meshes created over one run (uuids 1..MaxIds)
MaxTC == 1         \* TransformControls instances constructed over one run
MaxTris == 2       \* triangles of an analysed geometry
MaxKeys == 2       \* key-triggered setupTransformControls calls in flight

Ids == 1..MaxIds
TCs == 1..MaxTC
FaceIndices == {1, 2}            \* triangle indices a ray can report
PlaneRaw == {<<44, 56>>}         \* ray/ground-plane intersections, unit 0.05
Verts == {0, 1, 2, 12}           \* vertex indices of an analysed indexed geometry

(***************************************************************************)
(* Values.  A material is a reference: the material a mesh was built with  *)
(* (one per mesh), the manager's shared highlight material, or a fresh     *)
(* emissive clone / wireframe material made for highlighting.  0 stands    *)
(* for null / undefined object references.                                 *)
(***************************************************************************)
NoMat == [kind |-> "none", of |-> 0]
OrigMat(o) == [kind |-> "orig", of |-> o]
HighlightMaterial == [kind |-> "highlight", of |-> 0]
CloneMat == [kind |-> "clone", of |-> 0]
WireMat == [kind |-> "wire", of |-> 0]
IsHighlightMat(m) == m.kind \in {"highlight", "clone", "wire"}

NoNode == [kind |-> "none", obj |-> 0, sub |-> 0]
FaceNode(o, f) == [kind |-> "face", obj |-> o, sub |-> f]
EdgeNode(o, e) == [kind |-> "edge", obj |-> o, sub |-> e]

NoPoint == <<-1, -1>>
NullEdge == [fmt |-> "null", key |-> 0]
NoRet == [kind |-> "undefined", object |-> 0, sub |-> 0]
NullRet == [kind |-> "null", object |-> 0, sub |-> 0]

Ok(s) == [st |-> s, threw |-> FALSE, ret |-> NoRet]
Ret(s, r) == [st |-> s, threw |-> FALSE, ret |-> r]
Throw(s) == [st |-> s, threw |-> TRUE, ret |-> NoRet]

\* this.selected = null
SelectedNull ==
  [isNull |-> TRUE, type |-> "null", id |-> 0, object |-> 0,
   originalMaterial |-> NoMat, sub |-> 0]

\* this.selected = { type: null, id: null } of the constructor
SelectedInit ==
  [isNull |-> FALSE, type |-> "null", id |-> 0, object |-> 0,
   originalMaterial |-> NoMat, sub |-> 0]

\* Math.round(v / gridSize) * gridSize in units of 0.05 (gridSize 0.5 = 10 units);
\* Math.round rounds halves up.
GridSize == 10
Snap(v) == ((2 * v + GridSize) \div (2 * GridSize)) * GridSize
SnapPoint(p) == <<Snap(p[1]), Snap(p[2])>>

\* The edge lists the registry holds come from buildEdgesFromGeometry, which
\* pushes two-element index arrays [a, b]; they carry no start / end points.
MetaEdges == << [fmt |-> "array", key |-> 1], [fmt |-> "array", key |-> 2] >>

(***************************************************************************)
(* SketchMode: state after the constructor.  preview is "null" or the kind *)
(* of the THREE.Line it references; listeners tells whether the three      *)
(* bound pointer handlers are registered on the dom element (registering   *)
(* the same function twice is a no-op); cursor is domElement.style.cursor. *)
(***************************************************************************)
InitSketchMode ==
  [ mode |-> "none",
    startPoint |-> NoPoint,
    preview |-> "null",
    cursor |-> "",
    listeners |-> FALSE ]

(***************************************************************************)
(* SceneManager: state after the constructor                               *)
(***************************************************************************)
InitSM ==
  [ objects |-> {},
    objType |-> [i \in Ids |-> "none"],
    sceneChildren |-> {},
    sceneNodes |-> {},
    material |-> [i \in Ids |-> OrigMat(i)],
    selected |-> SelectedInit,
    highlightedFace |-> NoNode,
    highlightedEdge |-> NoNode,
    defaultMaterial |-> NoMat,
    highlighted |-> 0,
    defaultMaterials |-> [i \in Ids |-> NoMat],
    inputManager |-> "undefined",
    transform |-> "undefined",
    transformControls |-> 0,
    tcScene |-> {},
    tcObject |-> [t \in TCs |-> 0],
    tcCount |-> 0,
    setupPending |-> 0,
    initStarted |-> FALSE,
    sketchStartPoint |-> NoPoint,
    sketchMode |-> InitSketchMode,
    scenePreviews |-> 0,
    footprint |-> [i \in Ids |-> [x0 |-> 0, x1 |-> 0, z0 |-> 0, z1 |-> 0, r2 |-> 0]],
    nextId |-> 1,
    disposed |-> FALSE ]

(***************************************************************************)
(* SketchMode.  Lengths are in units of 0.05, so the minimum size 0.1 is   *)
(* 2 units.  scenePreviews counts the preview lines that are children of   *)
(* the scene; footprint[i] is the ground extent of mesh i: the x and z     *)
(* intervals of an extruded rectangle, or the centre (x0 = x1, z0 = z1)    *)
(* and squared radius r2 of an extruded circle.                            *)
(***************************************************************************)
MinSize == 2

clearPreview(s) ==
  IF s.sketchMode.preview # "null"
  THEN [s EXCEPT !.scenePreviews = @ - 1, !.sketchMode.preview = "null"]
  ELSE s

disable(s) ==
  LET s1 == clearPreview([s EXCEPT !.sketchMode.mode = "none"])
  IN [s1 EXCEPT !.sketchMode.startPoint = NoPoint,
                !.sketchMode.cursor = "",
                !.sketchMode.listeners = FALSE]

\* enable that does not disable the running mode first
enableWithoutDisable(s, mode) ==
  [s EXCEPT !.sketchMode.mode = mode,
            !.sketchMode.cursor = "crosshair",
            !.sketchMode.listeners = TRUE]

\* enable(mode) stores whatever mode it is given
enable(s, mode) ==
  LET s1 == IF s.sketchMode.mode # "none" THEN disable(s) ELSE s
  IN [s1 EXCEPT !.sketchMode.mode = mode,
                !.sketchMode.cursor = "crosshair",
                !.sketchMode.listeners = TRUE]

setSketchMode(s, mode) ==
  IF mode = "none" THEN disable(s) ELSE enable(s, mode)

\* raw is where the ray meets the draw plane, NoPoint when it does not
getIntersectionPoint(raw) ==
  IF raw = NoPoint THEN NoPoint ELSE <<Snap(raw[1]), Snap(raw[2])>>

\* updatePreview that does not clear the previous preview
updatePreviewKeepingOld(s, currentPoint) ==
  IF s.sketchMode.startPoint = NoPoint THEN s
  ELSE IF s.sketchMode.mode = "sketch-rect"
       THEN [s EXCEPT !.sketchMode.preview = "rectangle", !.scenePreviews = @ + 1]
       ELSE IF s.sketchMode.mode = "sketch-circle"
       THEN [s EXCEPT !.sketchMode.preview = "circle", !.scenePreviews = @ + 1]
       ELSE s

updatePreview(s, currentPoint) ==
  IF s.sketchMode.startPoint = NoPoint THEN s
  ELSE LET s1 == clearPreview(s)
       IN IF s1.sketchMode.mode = "sketch-rect"
          THEN [s1 EXCEPT !.sketchMode.preview = "rectangle", !.scenePreviews = @ + 1]
          ELSE IF s1.sketchMode.mode = "sketch-circle"
          THEN [s1 EXCEPT !.sketchMode.preview = "circle", !.scenePreviews = @ + 1]
          ELSE s1

\* extrudeShape that adds the mesh to the scene and does not register it
extrudeShapeUnregistered(s, fp) ==
  [s EXCEPT !.sceneChildren = @ \cup {s.nextId},
            !.footprint[s.nextId] = fp,
            !.nextId = @ + 1]

\* extrudeShape: scene.add(mesh), then sceneManager.addObject registers the
\* mesh under its uuid (the mesh is in the scene already, so addObject does
\* not add it again).
extrudeShape(s, fp) ==
  [s EXCEPT !.sceneChildren = @ \cup {s.nextId},
            !.objects = @ \cup {s.nextId},
            !.objType[s.nextId] =
               IF s.sketchMode.mode = "sketch-rect" THEN "Rectangle" ELSE "Circle",
            !.footprint[s.nextId] = fp,
            !.nextId = @ + 1]

\* createRectangle without the minimum-size test
createRectangleAnySize(s, endPoint) ==
  LET sp == s.sketchMode.startPoint
      width == IF endPoint[1] >= sp[1] THEN endPoint[1] - sp[1] ELSE sp[1] - endPoint[1]
      depth == IF endPoint[2] >= sp[2] THEN endPoint[2] - sp[2] ELSE sp[2] - endPoint[2]
      x == IF sp[1] <= endPoint[1] THEN sp[1] ELSE endPoint[1]
      z == IF sp[2] <= endPoint[2] THEN sp[2] ELSE endPoint[2]
  IN extrudeShape(s, [x0 |-> x, x1 |-> x + width, z0 |-> z - depth, z1 |-> z, r2 |-> 0])

\* The shape spans (0,0)..(width,depth) in its own plane; rotateX(-PI/2)
\* maps shape y to world -z, and the mesh is placed at the smaller x and z.
createRectangle(s, endPoint) ==
  LET sp == s.sketchMode.startPoint
      width == IF endPoint[1] >= sp[1] THEN endPoint[1] - sp[1] ELSE sp[1] - endPoint[1]
      depth == IF endPoint[2] >= sp[2] THEN endPoint[2] - sp[2] ELSE sp[2] - endPoint[2]
      x == IF sp[1] <= endPoint[1] THEN sp[1] ELSE endPoint[1]
      z == IF sp[2] <= endPoint[2] THEN sp[2] ELSE endPoint[2]
  IN IF width < MinSize \/ depth < MinSize THEN s
     ELSE extrudeShape(s, [x0 |-> x, x1 |-> x + width,
                           z0 |-> z - depth, z1 |-> z, r2 |-> 0])

\* radius < 0.1 is compared on the squares
createCircle(s, endPoint) ==
  LET sp == s.sketchMode.startPoint
      r2 == (endPoint[1] - sp[1]) * (endPoint[1] - sp[1])
            + (endPoint[2] - sp[2]) * (endPoint[2] - sp[2])
  IN IF r2 < MinSize * MinSize THEN s
     ELSE extrudeShape(s, [x0 |-> sp[1], x1 |-> sp[1],
                           z0 |-> sp[2], z1 |-> sp[2], r2 |-> r2])

\* createShape that leaves the start point set
createShapeKeepingStart(s, endPoint) ==
  IF s.sketchMode.startPoint = NoPoint THEN s
  ELSE LET s1 == IF s.sketchMode.mode = "sketch-rect" THEN createRectangle(s, endPoint)
                 ELSE IF s.sketchMode.mode = "sketch-circle" THEN createCircle(s, endPoint)
                 ELSE s
       IN clearPreview(s1)

createShape(s, endPoint) ==
  IF s.sketchMode.startPoint = NoPoint THEN s
  ELSE LET s1 == IF s.sketchMode.mode = "sketch-rect" THEN createRectangle(s, endPoint)
                 ELSE IF s.sketchMode.mode = "sketch-circle" THEN createCircle(s, endPoint)
                 ELSE s
       IN [clearPreview(s1) EXCEPT !.sketchMode.startPoint = NoPoint]

Sketch_onPointerDown(s, raw) ==
  IF s.sketchMode.mode = "none" THEN s
  ELSE IF getIntersectionPoint(raw) # NoPoint
       THEN [s EXCEPT !.sketchMode.startPoint = getIntersectionPoint(raw)]
       ELSE s

Sketch_onPointerMove(s, raw) ==
  IF s.sketchMode.mode = "none" \/ s.sketchMode.startPoint = NoPoint THEN s
  ELSE IF getIntersectionPoint(raw) # NoPoint
       THEN updatePreview(s, getIntersectionPoint(raw))
       ELSE s

Sketch_onPointerUp(s, raw) ==
  IF s.sketchMode.mode = "none" \/ s.sketchMode.startPoint = NoPoint THEN s
  ELSE IF getIntersectionPoint(raw) # NoPoint
       THEN createShape(s, getIntersectionPoint(raw))
       ELSE [clearPreview(s) EXCEPT !.sketchMode.startPoint = NoPoint]

(***************************************************************************)
(* SceneManager: highlighting                                              *)
(***************************************************************************)
clearHighlight(s) ==
  LET s1 == IF s.highlightedFace # NoNode
            THEN [s EXCEPT !.sceneNodes = @ \ {s.highlightedFace},
                           !.highlightedFace = NoNode]
            ELSE s
      s2 == IF s1.highlightedEdge # NoNode
            THEN [s1 EXCEPT !.sceneNodes = @ \ {s1.highlightedEdge},
                            !.highlightedEdge = NoNode]
            ELSE s1
  IN IF s2.defaultMaterial # NoMat /\ ~s2.selected.isNull /\ s2.selected.object # 0
     THEN [s2 EXCEPT !.material[s2.selected.object] = s2.defaultMaterial,
                     !.defaultMaterial = NoMat]
     ELSE s2

\* highlightFace(object, face, objectMeta), the definition in force.  It reads
\* object.material and face.a without a null test.
highlightFace(s, object, face) ==
  LET s1 == clearHighlight(s) IN
  IF object = 0 THEN Throw(s1)
  ELSE LET s2 == [s1 EXCEPT !.defaultMaterial = s1.material[object]] IN
       IF face = 0 THEN Throw(s2)
       ELSE Ok([s2 EXCEPT !.highlightedFace = FaceNode(object, face),
                          !.sceneNodes = @ \cup {FaceNode(object, face)}])

\* highlightEdge(object, edge, objectMeta), the definition in force: it builds
\* the line from edge.start and edge.end.
highlightEdge(s, object, edge) ==
  LET s1 == clearHighlight(s) IN
  IF edge.fmt # "points" THEN Throw(s1)
  ELSE Ok([s1 EXCEPT !.highlightedEdge = EdgeNode(object, edge.key),
                     !.sceneNodes = @ \cup {EdgeNode(object, edge.key)}])

highlightShape(s, mesh) ==
  LET s1 == IF s.highlighted # 0 /\ s.defaultMaterials[s.highlighted] # NoMat
            THEN [s EXCEPT !.material[s.highlighted] = s.defaultMaterials[s.highlighted]]
            ELSE s
  IN IF mesh # 0
     THEN [s1 EXCEPT !.defaultMaterials[mesh] = s1.material[mesh],
                     !.material[mesh] = CloneMat,
                     !.highlighted = mesh]
     ELSE [s1 EXCEPT !.highlighted = 0]

clearSelection(s) ==
  IF s.selected.isNull THEN Ok(s)
  ELSE LET s1 == [s EXCEPT !.selected = SelectedNull]
           s2 == highlightShape(s1, 0)
           r3 == highlightFace(s2, 0, 0)
       IN IF r3.threw THEN r3 ELSE highlightEdge(r3.st, 0, NullEdge)

(***************************************************************************)
(* SceneManager: object selection and the transform gizmo                  *)
(***************************************************************************)
tcDetach(s) ==
  IF s.transformControls # 0
  THEN [s EXCEPT !.tcObject[s.transformControls] = 0]
  ELSE s

tcAttach(s, object) ==
  IF s.transformControls # 0
  THEN [s EXCEPT !.tcObject[s.transformControls] = object]
  ELSE s

deselectObject(s) ==
  IF s.selected.isNull THEN Throw(s)          \* this.selected.object of null
  ELSE IF s.selected.object = 0 THEN Ok(s)
  ELSE LET o == s.selected.object
           s1 == IF s.selected.originalMaterial # NoMat
                 THEN [s EXCEPT !.material[o] = s.selected.originalMaterial]
                 ELSE s
           s2 == tcDetach(s1)
       IN Ok([s2 EXCEPT !.selected.object = 0,
                        !.selected.originalMaterial = NoMat])

selectObject(s, object) ==
  IF object = 0 THEN deselectObject(s)
  ELSE IF s.selected.isNull THEN Throw(s)     \* this.selected.object of null
  ELSE LET r1 == IF s.selected.object # 0 THEN deselectObject(s) ELSE Ok(s)
           s1 == r1.st
           s2 == [s1 EXCEPT !.selected.object = object,
                            !.selected.originalMaterial = s1.material[object],
                            !.material[object] = HighlightMaterial]
       IN Ok(tcAttach(s2, object))

\* attachTransformControl / detachTransformControl / updateTransformControls all
\* go through this.transform, which nothing assigns.
updateTransformControls(s) ==
  IF s.transform = "undefined" THEN Throw(s) ELSE Ok(s)

(***************************************************************************)
(* SceneManager: face / edge selection                                     *)
(***************************************************************************)
\* distanceToEdge(ray, edge, object) copies edge.start / edge.end and then calls
\* ray.closestPointToLine, which neither THREE.Ray nor THREE.Vector3 has: it
\* throws for an index-pair edge (edge.start is undefined) and for any other.
distanceToEdge(edge) == [threw |-> TRUE, distance |-> 0]

\* this.edgeThreshold = 0.1, in units of 0.05
EdgeThreshold == 2

RECURSIVE closestEdgeLoop(_, _, _, _)
closestEdgeLoop(edges, i, minDistance, closestEdge) ==
  IF i > Len(edges) THEN [threw |-> FALSE, edge |-> closestEdge]
  ELSE LET d == distanceToEdge(edges[i]) IN
       IF d.threw THEN [threw |-> TRUE, edge |-> NullEdge]
       ELSE IF d.distance < minDistance
            THEN closestEdgeLoop(edges, i + 1, d.distance, edges[i])
            ELSE closestEdgeLoop(edges, i + 1, minDistance, closestEdge)

\* findClosestEdge(object, point, objectMeta), the definition in force
findClosestEdge(edges) == closestEdgeLoop(edges, 1, EdgeThreshold, NullEdge)

handleFaceSelection(s, object, face) ==
  LET r1 == clearSelection(s) IN
  IF r1.threw THEN r1
  ELSE highlightFace(
         [r1.st EXCEPT !.selected =
            [isNull |-> FALSE, type |-> "face", id |-> 0, object |-> object,
             originalMaterial |-> NoMat, sub |-> face]],
         object, face)

handleEdgeSelection(s, object, edges) ==
  LET e == findClosestEdge(edges) IN
  IF e.threw THEN Throw(s)
  ELSE IF e.edge = NullEdge THEN Ok(s)
  ELSE LET r1 == clearSelection(s) IN
       IF r1.threw THEN r1
       ELSE highlightEdge(
              [r1.st EXCEPT !.selected =
                 [isNull |-> FALSE, type |-> "edge", id |-> 0, object |-> object,
                  originalMaterial |-> NoMat, sub |-> e.edge.key]],
              object, e.edge)

\* handleSelection(intersect), the definition in force.  intersect.object = 0
\* stands for a null intersect; face = 0 for an intersect without a face.
handleSelection(s, object, face) ==
  IF object = 0 THEN clearSelection(s)
  ELSE IF face # 0 THEN handleFaceSelection(s, object, face)
  ELSE handleEdgeSelection(s, object, MetaEdges)

selectShape(s, id) ==
  LET r1 == clearSelection(s) IN
  IF r1.threw THEN r1
  ELSE Ok(highlightShape(
            [r1.st EXCEPT !.selected =
               [isNull |-> FALSE, type |-> "shape", id |-> id, object |-> 0,
                originalMaterial |-> NoMat, sub |-> 0]],
            id))

(***************************************************************************)
(* SceneManager: pointer handling and picking                              *)
(***************************************************************************)
\* onPointerDown(event): clicked is the first visible non-helper object the ray
\* meets (0: none), plane the ray's intersection with the draw plane.  The test
\* this.sketchMode !== SKETCH_MODES.NONE compares the SketchMode object the
\* constructor stored with a string and is always true.
onPointerDown(s, clicked, plane) ==
  IF clicked # 0
  THEN IF s.selected.isNull THEN Throw(s)
       ELSE IF s.selected.object = clicked THEN deselectObject(s)
       ELSE selectObject(s, clicked)
  ELSE LET r1 == deselectObject(s) IN
       IF r1.threw THEN r1
       ELSE IF plane # NoPoint
            THEN Ok([r1.st EXCEPT !.sketchStartPoint = SnapPoint(plane)])
            ELSE r1

\* raycast(clientX, clientY): hit is the mesh of the nearest intersection among
\* the registry's visible meshes (0: none); shift / ctrl are what
\* this.inputManager.isKeyDown would report.
raycast(s, hit, shift, ctrl) ==
  IF hit = 0 \/ hit \notin s.objects THEN Ret(s, NullRet)
  ELSE IF s.inputManager = "undefined" THEN Throw(s)
  ELSE LET e == IF shift THEN findClosestEdge(MetaEdges)
                ELSE [threw |-> FALSE, edge |-> NullEdge] IN
       IF e.threw THEN Throw(s)
       ELSE IF e.edge # NullEdge
            THEN Ret(s, [kind |-> "edge", object |-> hit, sub |-> e.edge.key])
       ELSE IF ctrl
            THEN Ret(s, [kind |-> "face", object |-> hit, sub |-> 1])
       ELSE Ret(s, [kind |-> "object", object |-> hit, sub |-> 0])

(***************************************************************************)
(* SceneManager: registry, import, dispose                                 *)
(***************************************************************************)
\* addBox (type 'Box') and createBox -> addObject (type 'box'): a new mesh with
\* a fresh uuid enters the scene and the registry.
addMesh(s, type) ==
  [s EXCEPT !.objects = @ \cup {s.nextId},
            !.sceneChildren = @ \cup {s.nextId},
            !.objType[s.nextId] = type,
            !.nextId = @ + 1]

ImportTypes == {"Box", "Sphere", "Cylinder"}

RECURSIVE importObjects(_, _, _)
importObjects(s, entries, i) ==
  IF i > Len(entries) THEN s
  ELSE importObjects(IF entries[i] \in ImportTypes THEN addMesh(s, entries[i]) ELSE s,
                     entries, i + 1)

\* exportScene(): one entry per registered object, in the insertion order of
\* the registry Map (the order in which the meshes were created), carrying
\* meta.type; JSON.stringify and JSON.parse keep the type strings and the
\* order of the array.
exportScene(s) ==
  [kind |-> "ok",
   objects |-> [k \in 1..Cardinality(s.objects) |->
                  s.objType[CHOOSE i \in s.objects :
                              Cardinality({j \in s.objects : j <= i}) = k]]]

\* importScene that clears the registry before it looks at the document
importSceneClearingFirst(s, doc) ==
  LET s1 == [s EXCEPT !.sceneChildren = @ \ s.objects,
                      !.objType = [i \in Ids |-> "none"],
                      !.objects = {}]
  IN IF doc.kind # "ok" THEN Ret(s1, [kind |-> "false", object |-> 0, sub |-> 0])
     ELSE Ret(importObjects(s1, doc.objects, 1),
              [kind |-> "true", object |-> 0, sub |-> 0])

\* importScene(json): doc.kind is "unparsable" (JSON.parse throws, caught),
\* "noObjects" (objects missing or no array) or "ok".
importScene(s, doc) ==
  IF doc.kind # "ok" THEN Ret(s, [kind |-> "false", object |-> 0, sub |-> 0])
  ELSE LET s1 == [s EXCEPT !.sceneChildren = @ \ s.objects,
                           !.objType = [i \in Ids |-> "none"],
                           !.objects = {}]
       IN Ret(importObjects(s1, doc.objects, 1),
              [kind |-> "true", object |-> 0, sub |-> 0])

\* importSceneFromJson(jsonString, sceneManager) of utils/exportImport.js: a
\* document that does not parse or has no objects array makes it throw before
\* anything is touched; otherwise every entry of type 'box' is added with
\* addBox (the other lower-case types are not drawn, 'Box' is unsupported
\* and skipped), nothing is cleared, and the ids are returned.
importSceneFromJson(s, doc) ==
  IF doc.kind # "ok" THEN Throw(s)
  ELSE LET k == Cardinality({i \in 1..Len(doc.objects) : doc.objects[i] = "box"})
           new == s.nextId..(s.nextId + k - 1)
       IN Ret([s EXCEPT !.objects = @ \cup new,
                        !.sceneChildren = @ \cup new,
                        !.objType = [i \in Ids |-> IF i \in new THEN "Box" ELSE @[i]],
                        !.nextId = @ + k],
              [kind |-> "ids", object |-> 0, sub |-> k])

\* dispose(), the definition in force: this.sketchMode.dispose() disables
\* the sketch session, the registry is emptied, then this.transform.dispose()
\* is reached.
dispose(s) ==
  LET s0 == clearPreview(disable(s))
      s1 == [s0 EXCEPT !.sceneChildren = @ \ s.objects,
                      !.objType = [i \in Ids |-> "none"],
                      !.objects = {},
                      !.disposed = TRUE]
  IN IF s1.transform = "undefined" THEN Throw(s1) ELSE Ok(s1)

(***************************************************************************)
(* SceneManager: transform controls construction                           *)
(***************************************************************************)
\* setupTransformControls up to `await transformControlsPromise`
setupTransformControlsStart(s) ==
  LET s1 == IF s.transformControls # 0
            THEN [s EXCEPT !.tcScene = @ \ {s.transformControls},
                           !.tcObject[s.transformControls] = 0,
                           !.transformControls = 0]
            ELSE s
  IN [s1 EXCEPT !.setupPending = @ + 1]

\* setupTransformControls after the await: new TC(...), scene.add, return true
setupTransformControlsResume(s) ==
  [s EXCEPT !.transformControls = s.tcCount + 1,
            !.tcScene = @ \cup {s.tcCount + 1},
            !.tcCount = @ + 1,
            !.setupPending = @ - 1]

\* onKeyDown(event): without controls it starts a setup and returns; with
\* controls it only sets their mode.
onKeyDown(s) ==
  IF s.transformControls = 0 THEN setupTransformControlsStart(s) ELSE s

(***************************************************************************)
(* SelectionManager (three/selection.js).  Its constructor assigns          *)
(* sceneManager, three materials, edgeThreshold, mouse and raycaster; it    *)
(* assigns neither this.selection nor this.renderer nor this.camera.        *)
(***************************************************************************)
InitSelection ==
  [defined |-> FALSE, object |-> 0, type |-> "null", faceIndex |-> 0, edge |-> 0,
   originalMaterial |-> NoMat, edgeHighlight |-> 0, faceHighlight |-> 0,
   renderer |-> "undefined"]

SelOk(sel, s) == [sel |-> sel, st |-> s, threw |-> FALSE, ret |-> NoRet]
SelThrow(sel, s) == [sel |-> sel, st |-> s, threw |-> TRUE, ret |-> NoRet]

\* deselect(): `const { object } = this.selection` comes first
SelectionManager_deselect(sel, s) ==
  IF ~sel.defined THEN SelThrow(sel, s)
  ELSE IF sel.object = 0 THEN SelOk(sel, s)
  ELSE LET s1 == IF sel.originalMaterial # NoMat
                 THEN [s EXCEPT !.material[sel.object] = sel.originalMaterial]
                 ELSE s
       IN SelOk([sel EXCEPT !.object = 0, !.type = "null", !.faceIndex = 0,
                            !.edge = 0, !.originalMaterial = NoMat,
                            !.edgeHighlight = 0, !.faceHighlight = 0], s1)

\* selectObject(object, faceIndex, edge): deselect() is called on both paths,
\* and sceneManager.updateTransformControls() ends the method.
SelectionManager_selectObject(sel, s, object, faceIndex, edge) ==
  LET r1 == SelectionManager_deselect(sel, s) IN
  IF r1.threw \/ object = 0 THEN r1
  ELSE LET sel1 == [r1.sel EXCEPT !.object = object,
                      !.type = IF edge # 0 THEN "edge"
                               ELSE IF faceIndex # 0 THEN "face" ELSE "object",
                      !.faceIndex = faceIndex, !.edge = edge,
                      !.originalMaterial = r1.st.material[object]]
           sel2 == IF edge # 0 THEN [sel1 EXCEPT !.edgeHighlight = object]
                   ELSE IF faceIndex # 0 THEN [sel1 EXCEPT !.faceHighlight = object]
                   ELSE sel1
           s2 == IF edge = 0 /\ faceIndex = 0
                 THEN [r1.st EXCEPT !.material[object] = CloneMat]
                 ELSE r1.st
           r3 == updateTransformControls(s2)
       IN [sel |-> sel2, st |-> r3.st, threw |-> r3.threw, ret |-> NoRet]

\* handlePointerDown(event, raycaster): updateRaycaster reads
\* this.renderer.domElement first.
SelectionManager_handlePointerDown(sel, s, hit, shift, ctrl) ==
  IF sel.renderer = "undefined" THEN SelThrow(sel, s)
  ELSE IF hit = 0 THEN SelectionManager_deselect(sel, s)
  ELSE IF shift THEN SelectionManager_selectObject(sel, s, hit, 0, 1)
  ELSE IF ctrl THEN SelectionManager_selectObject(sel, s, hit, 1, 0)
  ELSE SelectionManager_selectObject(sel, s, hit, 0, 0)

(***************************************************************************)
(* The singleton SceneManager of part_000                                   *)
(***************************************************************************)
InitLegacy ==
  [scene |-> "null", sceneObjects |-> {}, objects |-> {}, selectedObject |-> 0,
   material |-> [i \in Ids |-> OrigMat(i)],
   originalMaterial |-> [i \in Ids |-> NoMat]]

Legacy_init(l) == [l EXCEPT !.scene = "scene", !.sceneObjects = {}]

Legacy_selectObject(l, object) ==
  LET l1 == IF l.selectedObject # 0 /\ l.originalMaterial[l.selectedObject] # NoMat
            THEN [l EXCEPT !.material[l.selectedObject] =
                             l.originalMaterial[l.selectedObject]]
            ELSE l
      l2 == [l1 EXCEPT !.selectedObject = object]
  IN IF object # 0
     THEN [l2 EXCEPT !.originalMaterial[object] = l2.material[object],
                     !.material[object] = WireMat]
     ELSE l2

Legacy_addObject(l, object) ==
  IF object = 0 THEN Ok(l)
  ELSE IF l.scene = "null" THEN Throw(l)
  ELSE Ok(Legacy_selectObject(
            [l EXCEPT !.sceneObjects = @ \cup {object}, !.objects = @ \cup {object}],
            object))

Legacy_removeObject(l, object) ==
  IF object = 0 THEN Ok(l)
  ELSE IF l.scene = "null" THEN Throw(l)
  ELSE Ok([l EXCEPT !.sceneObjects = @ \ {object},
                    !.objects = @ \ {object},
                    !.selectedObject = IF @ = object THEN 0 ELSE @])

(***************************************************************************)
(* Edge derivation (part_003 = core/primitives.js, part_007)                *)
(***************************************************************************)
DigitChars == <<"0", "1", "2", "3", "4", "5", "6", "7", "8", "9">>

\* `${n}` of a non-negative integer
RECURSIVE NumToString(_)
NumToString(n) ==
  IF n < 10 THEN <<DigitChars[n + 1]>>
  ELSE NumToString(n \div 10) \o <<DigitChars[(n % 10) + 1]>>

DigitValue(c) == CHOOSE d \in 0..9 : DigitChars[d + 1] = c

\* Number(str) of a digit string
RECURSIVE StringToNum(_)
StringToNum(str) ==
  IF Len(str) = 0 THEN 0
  ELSE StringToNum(SubSeq(str, 1, Len(str) - 1)) * 10 + DigitValue(str[Len(str)])

\* key.split(sep).map(Number)
SplitKey(key, sep) ==
  LET i == CHOOSE i \in 1..Len(key) : key[i] = sep
  IN <<StringToNum(SubSeq(key, 1, i - 1)), StringToNum(SubSeq(key, i + 1, Len(key)))>>

\* a key that keeps the order the triangle lists the two vertices in
directedEdgeKey(a, b) == NumToString(a) \o <<"_">> \o NumToString(b)

\* part_003: getEdgeKey = (a, b) => a < b ? `${a}_${b}` : `${b}_${a}`
getEdgeKey(a, b) ==
  IF a < b THEN NumToString(a) \o <<"_">> \o NumToString(b)
  ELSE NumToString(b) \o <<"_">> \o NumToString(a)

\* part_007: edgeKey = (a, b) => `${Math.min(a, b)}-${Math.max(a, b)}`
edgeKey(a, b) ==
  NumToString(IF a < b THEN a ELSE b) \o <<"-">> \o NumToString(IF a < b THEN b ELSE a)

\* A geometry: an index buffer (indexed) or position.count implicit vertices.
triangleCount(g) == IF g.indexed THEN Len(g.index) \div 3 ELSE g.count \div 3

\* the vertex indices a, b, c of triangle i (0-based)
TriangleVertices(g, i) ==
  IF g.indexed THEN <<g.index[3 * i + 1], g.index[3 * i + 2], g.index[3 * i + 3]>>
  ELSE <<3 * i, 3 * i + 1, 3 * i + 2>>

\* the directed edges [a, b], [b, c], [c, a] of triangle i
TriangleEdges(g, i) ==
  LET v == TriangleVertices(g, i)
  IN << <<v[1], v[2]>>, <<v[2], v[3]>>, <<v[3], v[1]>> >>

\* part_003 lines 81-89: one directed edge enters the Map (insertion ordered)
addToEdgeMap(edgeMap, e, tri) ==
  LET key == getEdgeKey(e[1], e[2]) IN
  IF \E k \in 1..Len(edgeMap) : edgeMap[k].key = key
  THEN [k \in 1..Len(edgeMap) |->
          IF edgeMap[k].key = key
          THEN [edgeMap[k] EXCEPT !.count = @ + 1, !.triangles = Append(@, tri)]
          ELSE edgeMap[k]]
  ELSE Append(edgeMap, [key |-> key, count |-> 1, triangles |-> <<tri>>])

\* part_003 lines 75-90: the scan over the triangles
RECURSIVE buildEdgeMap(_, _, _)
buildEdgeMap(g, i, edgeMap) ==
  IF i >= triangleCount(g) THEN edgeMap
  ELSE LET es == TriangleEdges(g, i) IN
       buildEdgeMap(g, i + 1,
         addToEdgeMap(addToEdgeMap(addToEdgeMap(edgeMap, es[1], i), es[2], i), es[3], i))

\* part_007 lines 251-269: one directed edge of a triangle of `face`
addToAnalysis(edgeMap, e, faceId) ==
  LET key == edgeKey(e[1], e[2]) IN
  IF \E k \in 1..Len(edgeMap) : edgeMap[k].key = key
  THEN [k \in 1..Len(edgeMap) |->
          IF edgeMap[k].key = key
          THEN [edgeMap[k] EXCEPT !.faceIds = @ \cup {faceId}]
          ELSE edgeMap[k]]
  ELSE Append(edgeMap, [key |-> key, id |-> Len(edgeMap), v1 |-> e[1], v2 |-> e[2],
                        faceIds |-> {faceId}])

\* part_007 lines 237-272 for a geometry without groups: one group covering
\* the whole buffer, so every triangle belongs to face f0 (faceId 0); edges are
\* only collected when an index buffer exists.
RECURSIVE analyzeEdges(_, _, _)
analyzeEdges(g, i, edgeMap) ==
  IF ~g.indexed \/ i >= triangleCount(g) THEN edgeMap
  ELSE LET es == TriangleEdges(g, i) IN
       analyzeEdges(g, i + 1,
         addToAnalysis(addToAnalysis(addToAnalysis(edgeMap, es[1], 0), es[2], 0), es[3], 0))

(***************************************************************************)
(* Initial states                                                          *)
(***************************************************************************)
InitLast == [op |-> "init", threw |-> FALSE, ret |-> NoRet, a |-> 0]

\* what the last call was, its first argument and how it ended
Last(op, r, a) == [op |-> op, threw |-> r.threw, ret |-> r.ret, a |-> a]

GeoIdle ==
  [phase |-> "idle", indexed |-> FALSE, index |-> <<>>, count |-> 0,
   edgeMap |-> <<>>, analysis |-> <<>>]

Triples == {t \in Verts \X Verts \X Verts : t[1] # t[2] /\ t[2] # t[3] /\ t[1] # t[3]}

\* index buffers of at most maxTris triangles
IndexBuffers(maxTris) ==
  UNION {{[k \in 1..(3 * n) |-> f[((k - 1) \div 3) + 1][((k - 1) % 3) + 1]] :
            f \in [1..n -> Triples]} : n \in 0..maxTris}

GeoInputs(maxTris) ==
  {[phase |-> "input", indexed |-> TRUE, index |-> ib, count |-> 0,
    edgeMap |-> <<>>, analysis |-> <<>>] : ib \in IndexBuffers(maxTris)}
  \cup
  {[phase |-> "input", indexed |-> FALSE, index |-> <<>>, count |-> 3 * n,
    edgeMap |-> <<>>, analysis |-> <<>>] : n \in 0..maxTris}

Init ==
  /\ sm = InitSM
  /\ last = InitLast
  /\ selection = InitSelection
  /\ legacy = InitLegacy
  /\ geo = GeoIdle

InitGeom ==
  /\ sm = InitSM
  /\ last = InitLast
  /\ selection = InitSelection
  /\ legacy = InitLegacy
  /\ geo \in GeoInputs(MaxTris)

(***************************************************************************)
(* Actions of the SceneManager                                             *)
(***************************************************************************)
Step(op, r, a) ==
  /\ sm' = r.st
  /\ last' = Last(op, r, a)
  /\ UNCHANGED <<selection, legacy, geo>>

\* addBox() of the SceneManager registers its mesh with type 'Box'
AddBox ==
  /\ ~sm.disposed /\ sm.nextId <= MaxIds
  /\ Step("addBox", Ok(addMesh(sm, "Box")), sm.nextId)

SelectObject ==
  /\ ~sm.disposed
  /\ \E o \in sm.objects \cup {0} :
       Step("selectObject", selectObject(sm, o), o)

DeselectObject ==
  /\ ~sm.disposed
  /\ Step("deselectObject", deselectObject(sm), 0)

ClearSelection ==
  /\ ~sm.disposed
  /\ Step("clearSelection", clearSelection(sm), 0)

HandleSelection ==
  /\ ~sm.disposed
  /\ \E o \in sm.objects \cup {0} : \E f \in FaceIndices \cup {0} :
       /\ (o = 0 => f = 0)
       /\ Step("handleSelection", handleSelection(sm, o, f), o)

SelectShape ==
  /\ ~sm.disposed
  /\ \E o \in sm.objects :
       Step("selectShape", selectShape(sm, o), o)

PointerDown ==
  /\ ~sm.disposed
  /\ \E o \in sm.sceneChildren \cup {0} : \E p \in PlaneRaw \cup {NoPoint} :
       Step("onPointerDown", onPointerDown(sm, o, p), o)

Raycast ==
  /\ ~sm.disposed
  /\ \E o \in sm.objects \cup {0} : \E shift \in BOOLEAN : \E ctrl \in BOOLEAN :
       Step("raycast", raycast(sm, o, shift, ctrl), o)

Docs ==
  {[kind |-> "unparsable", objects |-> <<>>], [kind |-> "noObjects", objects |-> <<>>]}
  \cup {[kind |-> "ok", objects |-> es] :
          es \in UNION {[1..n -> {"Box", "box"}] : n \in 0..2}}

Recognised(doc) == Cardinality({i \in 1..Len(doc.objects) : doc.objects[i] \in ImportTypes})

ImportScene ==
  /\ ~sm.disposed
  /\ \E doc \in Docs :
       /\ sm.nextId + Recognised(doc) <= MaxIds + 1
       /\ Step("importScene", importScene(sm, doc), Len(doc.objects))

Dispose ==
  /\ ~sm.disposed
  /\ Step("dispose", dispose(sm), 0)

\* initializeTransformControls: the animation frame the constructor's call waits
\* for has come; setupTransformControls runs up to its first await.
InitializeTransformControls ==
  /\ ~sm.initStarted
  /\ Step("initializeTransformControls",
          Ok([setupTransformControlsStart(sm) EXCEPT !.initStarted = TRUE]), 0)

SetupResume ==
  /\ sm.setupPending > 0 /\ sm.tcCount < MaxTC
  /\ Step("setupTransformControls", Ok(setupTransformControlsResume(sm)), 0)

KeyDown ==
  /\ ~sm.disposed
  /\ sm.transformControls = 0 => sm.setupPending < MaxTC
  /\ Step("onKeyDown", Ok(onKeyDown(sm)), 0)

(***************************************************************************)
(* Actions of the SelectionManager (it works on the same meshes)           *)
(***************************************************************************)
SelStep(op, r, a) ==
  /\ sm' = r.st
  /\ selection' = r.sel
  /\ last' = Last(op, r, a)
  /\ UNCHANGED <<legacy, geo>>

SelDeselect ==
  /\ ~sm.disposed
  /\ SelStep("SelectionManager.deselect", SelectionManager_deselect(selection, sm),
             0)

SelSelectObject ==
  /\ ~sm.disposed
  /\ \E o \in sm.objects \cup {0} : \E f \in {0, 1} : \E e \in {0, 1} :
       SelStep("SelectionManager.selectObject",
               SelectionManager_selectObject(selection, sm, o, f, e), o)

SelPointerDown ==
  /\ ~sm.disposed
  /\ \E o \in sm.sceneChildren \cup {0} : \E shift \in BOOLEAN : \E ctrl \in BOOLEAN :
       SelStep("SelectionManager.handlePointerDown",
               SelectionManager_handlePointerDown(selection, sm, o, shift, ctrl),
               o)

Next ==
  \/ AddBox
  \/ SelectObject
  \/ DeselectObject
  \/ ClearSelection
  \/ HandleSelection
  \/ PointerDown
  \/ Raycast
  \/ ImportScene
  \/ Dispose
  \/ InitializeTransformControls
  \/ SetupResume
  \/ KeyDown
  \/ SelDeselect
  \/ SelSelectObject
  \/ SelPointerDown

Spec == Init /\ [][Next]_vars

\* selectShape has no caller in the sources; its interplay with the other
\* selection entry points is explored separately.
NextShape ==
  \/ AddBox
  \/ SelectShape
  \/ SelectObject
  \/ DeselectObject
  \/ ClearSelection

SpecShape == Init /\ [][NextShape]_vars

(***************************************************************************)
(* Actions of the part_000 manager                                         *)
(***************************************************************************)
LegacyStep(op, r, a) ==
  /\ legacy' = r.st
  /\ last' = Last(op, r, a)
  /\ UNCHANGED <<sm, selection, geo>>

LegacyInit == LegacyStep("Legacy.init", Ok(Legacy_init(legacy)), 0)

LegacyAddObject ==
  \E o \in Ids : LegacyStep("Legacy.addObject", Legacy_addObject(legacy, o), o)

LegacyRemoveObject ==
  \E o \in Ids : LegacyStep("Legacy.removeObject", Legacy_removeObject(legacy, o), o)

LegacySelectObject ==
  \E o \in Ids \cup {0} :
    LegacyStep("Legacy.selectObject", Ok(Legacy_selectObject(legacy, o)), o)

NextLegacy ==
  \/ LegacyInit
  \/ LegacyAddObject
  \/ LegacyRemoveObject
  \/ LegacySelectObject

SpecLegacy == Init /\ [][NextLegacy]_vars

(***************************************************************************)
(* Edge derivation applied to a geometry                                   *)
(***************************************************************************)
BuildEdges ==
  /\ geo.phase = "input"
  /\ geo' = [geo EXCEPT !.phase = "built", !.edgeMap = buildEdgeMap(geo, 0, <<>>)]
  /\ UNCHANGED <<sm, last, selection, legacy>>

AnalyzeGeometry ==
  /\ geo.phase = "input"
  /\ geo' = [geo EXCEPT !.phase = "analysed", !.analysis = analyzeEdges(geo, 0, <<>>)]
  /\ UNCHANGED <<sm, last, selection, legacy>>

NextGeom ==
  \/ BuildEdges
  \/ AnalyzeGeometry

SpecGeom == InitGeom /\ [][NextGeom]_vars

(***************************************************************************)
(* Observations used by the properties                                     *)
(***************************************************************************)
Min(a, b) == IF a < b THEN a ELSE b
Max(a, b) == IF a < b THEN b ELSE a

\* nothing is selected: this.selected is null, or it is the constructor's
\* { type: null } record without an object
IsIdle(s) == s.selected.isNull \/ (s.selected.type = "null" /\ s.selected.object = 0)

\* an object selection made by selectObject
IsObjectSelected(s) ==
  ~s.selected.isNull /\ s.selected.type = "null" /\ s.selected.object # 0

Swapped(s) == {o \in Ids : IsHighlightMat(s.material[o])}
FaceOverlays(s) == {n \in s.sceneNodes : n.kind = "face"}
EdgeOverlays(s) == {n \in s.sceneNodes : n.kind = "edge"}
HighlightCount(s) ==
  Cardinality(Swapped(s)) + Cardinality(FaceOverlays(s)) + Cardinality(EdgeOverlays(s))

\* the objects some TransformControls instance is attached to
GizmoObjects(s) == {s.tcObject[t] : t \in TCs} \ {0}

\* what the user sees of the selection: materials and overlay nodes
HighlightView(s) == <<s.material, s.sceneNodes>>

(***************************************************************************)
(* Properties                                                              *)
(***************************************************************************)
\* C1: in every reachable state at most one of {swapped highlight material,
\* face overlay node, edge overlay node} exists, and none exists when nothing
\* is selected.
C1_AtMostOneHighlight ==
  /\ HighlightCount(sm) <= 1
  /\ IsIdle(sm) => HighlightCount(sm) = 0

\* C2: from any reachable state, selecting an object A that is not the current
\* selection and then a different object B leaves A with the material it had
\* before it was selected, and afterwards no object other than B carries a
\* highlight material.
C2_SelectAThenB ==
  \A a \in sm.objects : \A b \in sm.objects \ {a} :
    LET r1 == selectObject(sm, a)
        r2 == selectObject(r1.st, b)
    IN (~sm.selected.isNull /\ sm.selected.object # a /\ ~r1.threw /\ ~r2.threw)
         => /\ r2.st.material[a] = sm.material[a]
            /\ \A o \in Ids \ {b} : ~IsHighlightMat(r2.st.material[o])

\* C3: a deselect made while nothing is selected (clearSelection,
\* deselectObject, selectObject(null), handleSelection(null),
\* SelectionManager.deselect) raises no error, changes neither the selection
\* nor any material, and leaves no overlay node.
C3_DeselectWhenIdleIsNoOp ==
  [][ (/\ IsIdle(sm)
       /\ last'.op \in {"clearSelection", "deselectObject", "selectObject",
                        "handleSelection", "SelectionManager.deselect"}
       /\ last'.a = 0)
      => (/\ ~last'.threw
          /\ sm'.selected = sm.selected
          /\ sm'.material = sm.material
          /\ sm'.sceneNodes = {}) ]_vars

\* C4: select(None) made while something is selected (handleSelection(null),
\* clearSelection, selectObject(null)) ends without error in Idle with every
\* swapped material restored, no overlay node and the gizmo detached.
C4_SelectNoneGoesIdle ==
  [][ (/\ ~IsIdle(sm)
       /\ last'.op \in {"handleSelection", "clearSelection", "selectObject"}
       /\ last'.a = 0)
      => (/\ ~last'.threw
          /\ IsIdle(sm')
          /\ HighlightCount(sm') = 0
          /\ GizmoObjects(sm') = {}) ]_vars

\* C5: a pointer-down or select call that resolves to the object already
\* selected leaves the selection on that object and the highlight state as it
\* was.
C5_ReselectIsIdempotent ==
  [][ (/\ IsObjectSelected(sm)
       /\ last'.op \in {"onPointerDown", "selectObject"}
       /\ last'.a = sm.selected.object)
      => (/\ ~last'.threw
          /\ IsObjectSelected(sm')
          /\ sm'.selected.object = sm.selected.object
          /\ HighlightView(sm') = HighlightView(sm)) ]_vars

\* C6: in every reachable state the gizmo is attached to an object only while
\* that object is the object selection.
C6_GizmoOnlyWhenObjectSelected ==
  \A o \in GizmoObjects(sm) : IsObjectSelected(sm) /\ sm.selected.object = o

\* C7: in every reachable state the selection and the gizmo attachment refer
\* only to objects of the registry.
C7_SelectionInRegistry ==
  /\ (~sm.selected.isNull /\ sm.selected.object # 0) => sm.selected.object \in sm.objects
  /\ GizmoObjects(sm) \subseteq sm.objects

\* C8: in every reachable state a pick whose ray hits a registered object
\* returns a hit on that object whose kind is an edge hit only with Shift
\* held, otherwise a face hit when Ctrl is held, otherwise an object hit; with
\* no modifier it is an object hit.
C8_PickPriority ==
  \A o \in sm.objects : \A shift \in BOOLEAN : \A ctrl \in BOOLEAN :
    LET r == raycast(sm, o, shift, ctrl)
        fallback == IF ctrl THEN "face" ELSE "object"
    IN /\ ~r.threw
       /\ r.ret.object = o
       /\ r.ret.kind \in (IF shift THEN {"edge", fallback} ELSE {fallback})

\* C9: a pick that hits nothing returns null without an error, and a
\* pointer-down that hits nothing ends without an error with nothing selected.
C9_NoHitIsDeselect ==
  /\ (last.op = "raycast" /\ last.a = 0) => (~last.threw /\ last.ret = NullRet)
  /\ (last.op \in {"onPointerDown", "SelectionManager.handlePointerDown"} /\ last.a = 0)
       => (~last.threw /\ IsIdle(sm) /\ HighlightCount(sm) = 0)

\* the directed edges of all triangles of g, as <<triangle, slot, a, b>>
DirectedEdges(g) ==
  {<<i, k, TriangleEdges(g, i)[k][1], TriangleEdges(g, i)[k][2]>> :
     i \in 0..(triangleCount(g) - 1), k \in 1..3}

\* C10: edge keys are canonical.  The key of (a, b) equals the key of (b, a)
\* and reads back as (min(a,b), max(a,b)); in the map built from a geometry
\* every vertex pair used by some triangle has exactly one entry, which
\* collects every triangle side on that pair whatever its winding.
C10_EdgeKeysCanonical ==
  /\ \A a \in Verts : \A b \in Verts \ {a} :
       /\ getEdgeKey(a, b) = getEdgeKey(b, a)
       /\ SplitKey(getEdgeKey(a, b), "_") = <<Min(a, b), Max(a, b)>>
       /\ edgeKey(a, b) = edgeKey(b, a)
       /\ SplitKey(edgeKey(a, b), "-") = <<Min(a, b), Max(a, b)>>
  /\ geo.phase = "built" =>
       \A e \in DirectedEdges(geo) :
         LET ks == {k \in 1..Len(geo.edgeMap) :
                      SplitKey(geo.edgeMap[k].key, "_") = <<Min(e[3], e[4]), Max(e[3], e[4])>>}
             sides == {d \in DirectedEdges(geo) : {d[3], d[4]} = {e[3], e[4]}}
         IN /\ Cardinality(ks) = 1
            /\ \A k \in ks : geo.edgeMap[k].count = Cardinality(sides)
  /\ (geo.phase = "analysed" /\ geo.indexed) =>
       \A e \in DirectedEdges(geo) :
         Cardinality({k \in 1..Len(geo.analysis) :
                        SplitKey(geo.analysis[k].key, "-")
                          = <<Min(e[3], e[4]), Max(e[3], e[4])>>}) = 1

\* two triangles run along the same vertex pair in opposite directions and the
\* built map holds one entry of count 2 for it
C10_Witness ==
  /\ geo.phase = "built"
  /\ \E d \in DirectedEdges(geo) : \E e \in DirectedEdges(geo) :
       /\ d[1] # e[1] /\ d[3] = e[4] /\ d[4] = e[3] /\ Max(d[3], d[4]) >= 10
       /\ \E k \in 1..Len(geo.edgeMap) :
            /\ geo.edgeMap[k].key = getEdgeKey(d[3], d[4])
            /\ geo.edgeMap[k].count = 2

(***************************************************************************)
(* Edge classification of buildEdgesFromGeometry (part_003)                *)
(***************************************************************************)
\* Angles are in units of 0.25 rad.  The face normals of the analysed
\* geometries lie in one plane, so a normal is its direction angle and
\* normal1.angleTo(normal2) is the absolute difference (all directions used
\* are less than pi apart).
ThresholdAngle == 4              \* thresholdAngle = 1

NormalDirs == {0, 4, 5}          \* differences 0 and 1 (below), 4 (equal), 5 (above)

angleTo(n1, n2) == IF n1 < n2 THEN n2 - n1 ELSE n1 - n2

\* faceMap[t].normal of triangleToFaceMapFromGeometry
TriangleNormal(g, tri) == g.normals[tri + 1]

\* an angle test letting an angle equal to the threshold pass
reachesThreshold(angle, thresholdAngle) == angle >= thresholdAngle

\* the angle test of an entry with count === 2, thresholdAngle as argument
exceedsThreshold(angle, thresholdAngle) == angle > thresholdAngle

\* part_003 lines 94-112: the scan over the entries of the Map in insertion
\* order; an entry with count 3 or more matches neither branch
RECURSIVE classifyEdges(_, _, _, _)
classifyEdges(g, edgeMap, k, edges) ==
  IF k > Len(edgeMap) THEN edges
  ELSE LET data == edgeMap[k]
           ab == SplitKey(data.key, "_")
       IN IF data.count = 1
          THEN classifyEdges(g, edgeMap, k + 1, Append(edges, ab))
          ELSE IF data.count = 2
          THEN LET normal1 == TriangleNormal(g, data.triangles[1])
                   normal2 == TriangleNormal(g, data.triangles[2])
                   angle == angleTo(normal1, normal2)
               IN IF exceedsThreshold(angle, ThresholdAngle)
                  THEN classifyEdges(g, edgeMap, k + 1, Append(edges, ab))
                  ELSE classifyEdges(g, edgeMap, k + 1, edges)
          ELSE classifyEdges(g, edgeMap, k + 1, edges)

\* buildEdgesFromGeometry(geometry) with the default thresholdAngle
buildEdgesFromGeometry(g) == classifyEdges(g, buildEdgeMap(g, 0, <<>>), 1, <<>>)

\* index triples starting at their smallest vertex: every triangle over Verts
\* in both windings, up to rotation
RotatedTriples == {t \in Triples : t[1] < t[2] /\ t[1] < t[3]}

\* geometries with a normal direction per triangle
NormalInputs(maxTris) ==
  UNION {
    {[phase |-> "input", indexed |-> TRUE,
      index |-> [k \in 1..(3 * n) |-> f[((k - 1) \div 3) + 1][((k - 1) % 3) + 1]],
      count |-> 0, normals |-> ns, edges |-> <<>>] :
        f \in [1..n -> RotatedTriples], ns \in [1..n -> NormalDirs]}
    \cup
    {[phase |-> "input", indexed |-> FALSE, index |-> <<>>, count |-> 3 * n,
      normals |-> ns, edges |-> <<>>] : ns \in [1..n -> NormalDirs]}
    : n \in 0..maxTris}

InitEdges ==
  /\ sm = InitSM
  /\ last = InitLast
  /\ selection = InitSelection
  /\ legacy = InitLegacy
  /\ geo \in NormalInputs(MaxTris)

BuildEdgeList ==
  /\ geo.phase = "input"
  /\ geo' = [geo EXCEPT !.phase = "listed", !.edges = buildEdgesFromGeometry(geo)]
  /\ UNCHANGED <<sm, last, selection, legacy>>

NextEdges == BuildEdgeList

SpecEdges == InitEdges /\ [][NextEdges]_vars

\* the triangle sides lying on the vertex pair {a, b}
SidesOn(g, a, b) == {d \in DirectedEdges(g) : {d[3], d[4]} = {a, b}}

\* the triangles having a side on {a, b}
TrianglesOn(g, a, b) == {d[1] : d \in SidesOn(g, a, b)}

\* how often the pair (min, max) occurs in the edge list
Occurrences(edges, a, b) ==
  Cardinality({k \in 1..Len(edges) : edges[k] = <<Min(a, b), Max(a, b)>>})

\* C11: an edge of the geometry is in the selectable edge list (once) exactly
\* when it belongs to one triangle, or belongs to two triangles whose normals
\* make an angle strictly greater than the threshold; the list holds nothing
\* but edges of the geometry.
C11_SelectableEdges ==
  geo.phase = "listed" =>
    /\ \A d \in DirectedEdges(geo) :
         LET sides == SidesOn(geo, d[3], d[4])
             tris == TrianglesOn(geo, d[3], d[4])
             selectable ==
               \/ Cardinality(sides) = 1
               \/ /\ Cardinality(sides) = 2
                  /\ Cardinality(tris) = 2
                  /\ \A t1 \in tris : \A t2 \in tris \ {t1} :
                       angleTo(TriangleNormal(geo, t1), TriangleNormal(geo, t2))
                         > ThresholdAngle
         IN Occurrences(geo.edges, d[3], d[4]) = (IF selectable THEN 1 ELSE 0)
    /\ \A k \in 1..Len(geo.edges) :
         \E d \in DirectedEdges(geo) :
           geo.edges[k] = <<Min(d[3], d[4]), Max(d[3], d[4])>>

\* a listed geometry with a boundary edge in the list and an interior edge
\* whose normals are exactly the threshold apart left out of it
C11_Witness ==
  /\ geo.phase = "listed"
  /\ \E d \in DirectedEdges(geo) :
       /\ Cardinality(SidesOn(geo, d[3], d[4])) = 1
       /\ Occurrences(geo.edges, d[3], d[4]) = 1
  /\ \E d \in DirectedEdges(geo) :
       /\ Cardinality(TrianglesOn(geo, d[3], d[4])) = 2
       /\ angleTo(TriangleNormal(geo, 0), TriangleNormal(geo, 1)) = ThresholdAngle
       /\ Occurrences(geo.edges, d[3], d[4]) = 0

\* no vertex index occurs in two triangles of g
NoSharedVertices(g) ==
  \A d \in DirectedEdges(g) : \A e \in DirectedEdges(g) :
    d[1] # e[1] => d[3] # e[3]

\* C12: for a geometry of N triangles without shared vertices both analyzers
\* produce exactly N edges, each of them a boundary edge (one triangle, one
\* face).
C12_DisjointTrianglesGiveNEdges ==
  NoSharedVertices(geo) =>
    /\ geo.phase = "built" =>
         /\ Len(geo.edgeMap) = triangleCount(geo)
         /\ \A k \in 1..Len(geo.edgeMap) : geo.edgeMap[k].count = 1
    /\ geo.phase = "analysed" =>
         /\ Len(geo.analysis) = triangleCount(geo)
         /\ \A k \in 1..Len(geo.analysis) : Cardinality(geo.analysis[k].faceIds) = 1

(***************************************************************************)
(* analyzeGeometry (part_007) on geometries with group ranges: a cube      *)
(***************************************************************************)
\* geometry.groups, or the single group covering the whole buffer
groupsOf(g) ==
  IF Len(g.groups) > 0 THEN g.groups
  ELSE << [start |-> 0, count |-> IF g.indexed THEN Len(g.index) ELSE g.count] >>

\* part_007 lines 240-270: the triangles i, i+1, ... of one group; the edges
\* of a triangle enter the Map with the id of the group's face
RECURSIVE analyzeGroupTriangles(_, _, _, _, _)
analyzeGroupTriangles(g, group, faceId, i, edgeMap) ==
  IF i >= group.count \div 3 THEN edgeMap
  ELSE LET base == group.start + i * 3
           i0 == g.index[base + 1]
           i1 == g.index[base + 2]
           i2 == g.index[base + 3]
       IN analyzeGroupTriangles(g, group, faceId, i + 1,
            addToAnalysis(addToAnalysis(addToAnalysis(edgeMap,
              <<i0, i1>>, faceId), <<i1, i2>>, faceId), <<i2, i0>>, faceId))

\* part_007 lines 189-272: groups.forEach; face ids f0, f1, ... in group order
RECURSIVE analyzeGroups(_, _, _, _)
analyzeGroups(g, groups, j, edgeMap) ==
  IF j > Len(groups) THEN edgeMap
  ELSE analyzeGroups(g, groups, j + 1,
         IF g.indexed THEN analyzeGroupTriangles(g, groups[j], j - 1, 0, edgeMap)
         ELSE edgeMap)

\* The six quads of a cube over the vertices 0..7 (vertex x + 2y + 4z), each
\* in cyclic order.
CubeQuads ==
  << <<0, 2, 6, 4>>, <<1, 3, 7, 5>>, <<0, 1, 5, 4>>,
     <<2, 3, 7, 6>>, <<0, 1, 3, 2>>, <<4, 5, 7, 6>> >>

\* the two triangles of quad q split along the diagonal chosen by d
QuadTriangles(q, d) ==
  IF d = 0 THEN <<q[1], q[2], q[3], q[1], q[3], q[4]>>
  ELSE <<q[2], q[3], q[4], q[2], q[4], q[1]>>

\* the index buffer of the cube: 12 triangles, quad after quad
CubeIndex(diag) ==
  QuadTriangles(CubeQuads[1], diag[1]) \o QuadTriangles(CubeQuads[2], diag[2]) \o
  QuadTriangles(CubeQuads[3], diag[3]) \o QuadTriangles(CubeQuads[4], diag[4]) \o
  QuadTriangles(CubeQuads[5], diag[5]) \o QuadTriangles(CubeQuads[6], diag[6])

\* one group per quad, as BoxGeometry declares them
QuadGroups == [j \in 1..6 |-> [start |-> 6 * (j - 1), count |-> 6]]

CubeInputs ==
  {[phase |-> "input", indexed |-> TRUE, index |-> CubeIndex(diag), count |-> 0,
    groups |-> gs, edgeMap |-> <<>>, analysis |-> <<>>] :
     diag \in [1..6 -> {0, 1}], gs \in {<<>>, QuadGroups}}

InitCube ==
  /\ sm = InitSM
  /\ last = InitLast
  /\ selection = InitSelection
  /\ legacy = InitLegacy
  /\ geo \in CubeInputs

AnalyzeGroups ==
  /\ geo.phase = "input"
  /\ geo' = [geo EXCEPT !.phase = "analysed",
                        !.analysis = analyzeGroups(geo, groupsOf(geo), 1, <<>>)]
  /\ UNCHANGED <<sm, last, selection, legacy>>

NextCube ==
  \/ BuildEdges
  \/ AnalyzeGroups

SpecCube == InitCube /\ [][NextCube]_vars

\* C13: for the closed cube mesh of 12 triangles over 8 shared vertices each
\* analyzer yields exactly 18 edges, and every interior edge (an edge with a
\* triangle on both sides) records exactly 2 adjacent faces.
C13_CubeHas18Edges ==
  /\ geo.phase = "built" =>
       /\ Len(geo.edgeMap) = 18
       /\ \A k \in 1..Len(geo.edgeMap) :
            geo.edgeMap[k].count = 2 /\ Len(geo.edgeMap[k].triangles) = 2
  /\ geo.phase = "analysed" =>
       /\ Len(geo.analysis) = 18
       /\ \A k \in 1..Len(geo.analysis) : Cardinality(geo.analysis[k].faceIds) = 2

(***************************************************************************)
(* The analyzer entry points on geometries with or without a position      *)
(* attribute                                                                *)
(***************************************************************************)
Analysed(faces, edges) == [threw |-> FALSE, faces |-> faces, edges |-> edges]
AnalysisThrew == [threw |-> TRUE, faces |-> 0, edges |-> <<>>]

\* part_003 lines 10-54: {} without a position attribute, else one entry per
\* triangle; the result is the number of entries
triangleToFaceMapFromGeometry(g) ==
  IF ~g.hasPosition THEN 0 ELSE triangleCount(g)

\* part_003 lines 62-115 with the reads of geometry.attributes.position:
\* line 73 reads position.count when there is no index, and an entry with
\* count 2 reads faceMap[t1].normal of the face map of line 100
buildEdgesFromGeometryGuarded(g) ==
  IF ~g.hasPosition /\ ~g.indexed THEN AnalysisThrew
  ELSE LET edgeMap == buildEdgeMap(g, 0, <<>>) IN
       IF /\ \E k \in 1..Len(edgeMap) : edgeMap[k].count = 2
          /\ triangleToFaceMapFromGeometry(g) = 0
       THEN AnalysisThrew
       ELSE Analysed(0, classifyEdges(g, edgeMap, 1, <<>>))

\* part_007 lines 169-286: analyzeGeometry throws without a position attribute
analyzeGeometry(g) ==
  IF ~g.hasPosition THEN AnalysisThrew
  ELSE Analysed(Len(groupsOf(g)), analyzeGroups(g, groupsOf(g), 1, <<>>))

PositionInputs(maxTris) ==
  {[phase |-> "input", indexed |-> g.indexed, index |-> g.index, count |-> g.count,
    normals |-> g.normals, groups |-> <<>>, hasPosition |-> hp,
    threw |-> FALSE, faces |-> 0, edges |-> <<>>] :
     g \in NormalInputs(maxTris), hp \in BOOLEAN}

InitAnalyzer ==
  /\ sm = InitSM
  /\ last = InitLast
  /\ selection = InitSelection
  /\ legacy = InitLegacy
  /\ geo \in PositionInputs(MaxTris)

AnalyzerStep(entry, r) ==
  /\ geo.phase = "input"
  /\ geo' = [geo EXCEPT !.phase = entry, !.threw = r.threw, !.faces = r.faces,
                        !.edges = r.edges]
  /\ UNCHANGED <<sm, last, selection, legacy>>

CallFaceMap ==
  AnalyzerStep("triangleToFaceMapFromGeometry",
               Analysed(triangleToFaceMapFromGeometry(geo), <<>>))

CallBuildEdges ==
  AnalyzerStep("buildEdgesFromGeometry", buildEdgesFromGeometryGuarded(geo))

CallAnalyzeGeometry == AnalyzerStep("analyzeGeometry", analyzeGeometry(geo))

NextAnalyzer ==
  \/ CallFaceMap
  \/ CallBuildEdges
  \/ CallAnalyzeGeometry

SpecAnalyzer == InitAnalyzer /\ [][NextAnalyzer]_vars

\* C14: on a geometry without a position attribute every analyzer entry point
\* returns an empty result (no faces, no edges) and does not throw.
C14_NoPositionGivesEmpty ==
  (~geo.hasPosition /\ geo.phase # "input")
    => (~geo.threw /\ geo.faces = 0 /\ geo.edges = <<>>)

(***************************************************************************)
(* Sketch session: the clicks of the sketch controls and of the toolbar,   *)
(* and the pointer events of the canvas.  A pointer event reaches a        *)
(* handler only while the handlers are registered.  last.a is the pair     *)
(* <<mode clicked, start point before the click>> or <<start point before  *)
(* the event, ray/plane intersection of the event>>.                       *)
(***************************************************************************)
SketchRaw == {<<0, 0>>, <<1, 1>>, <<44, 56>>, <<40, 4>>, NoPoint}

\* App.handleSetSketchMode is the onSetSketchMode of the sketch controls
\* ('sketch-rect', 'sketch-circle', 'none') and the onTransformModeChange of
\* the toolbar, whose buttons pass 'select', 'translate', 'rotate', 'scale'.
HandleSetSketchMode ==
  \E mode \in {"sketch-rect", "sketch-circle", "none",
               "select", "translate", "rotate", "scale"} :
    Step("setSketchMode", Ok(setSketchMode(sm, mode)),
         <<mode, sm.sketchMode.startPoint>>)

SketchPointerDown ==
  \E raw \in SketchRaw :
    Step("sketchPointerDown",
         Ok(IF sm.sketchMode.listeners THEN Sketch_onPointerDown(sm, raw) ELSE sm),
         <<sm.sketchMode.startPoint, raw>>)

SketchPointerMove ==
  \E raw \in SketchRaw :
    Step("sketchPointerMove",
         Ok(IF sm.sketchMode.listeners THEN Sketch_onPointerMove(sm, raw) ELSE sm),
         <<sm.sketchMode.startPoint, raw>>)

SketchPointerUp ==
  \E raw \in SketchRaw :
    /\ sm.nextId <= MaxIds
    /\ Step("sketchPointerUp",
            Ok(IF sm.sketchMode.listeners THEN Sketch_onPointerUp(sm, raw) ELSE sm),
            <<sm.sketchMode.startPoint, raw>>)

NextSketch ==
  \/ HandleSetSketchMode
  \/ SketchPointerDown
  \/ SketchPointerMove
  \/ SketchPointerUp

SpecSketch == Init /\ [][NextSketch]_vars

\* observations of a gesture: the extents between a start point and an end
\* point, in units of 0.05 (0.1 is 2 units)
Extent(p, q, k) == IF p[k] <= q[k] THEN q[k] - p[k] ELSE p[k] - q[k]
Radius2(p, q) == (q[1] - p[1]) * (q[1] - p[1]) + (q[2] - p[2]) * (q[2] - p[2])
Dragging(s) ==
  s.sketchMode.listeners /\ s.sketchMode.mode # "none" /\ s.sketchMode.startPoint # NoPoint
BelowMinimum(mode, p, q) ==
  \/ mode = "sketch-rect" /\ (Extent(p, q, 1) < 2 \/ Extent(p, q, 2) < 2)
  \/ mode = "sketch-circle" /\ Radius2(p, q) < 4
SnappedEnd(raw) == <<Snap(raw[1]), Snap(raw[2])>>

\* C15: a pointer-up that ends a drag whose rectangle is narrower than 0.1 in
\* width or depth, or whose circle has a radius below 0.1, creates no object:
\* the registry and the scene graph are what they were before the gesture.
C15_TooSmallCreatesNothing ==
  [][(/\ last'.op = "sketchPointerUp"
      /\ Dragging(sm)
      /\ last'.a[2] # NoPoint
      /\ BelowMinimum(sm.sketchMode.mode, sm.sketchMode.startPoint, SnappedEnd(last'.a[2])))
     => (/\ sm'.objects = sm.objects
         /\ sm'.sceneChildren = sm.sceneChildren
         /\ sm'.objType = sm.objType
         /\ sm'.nextId = sm.nextId
         /\ sm'.scenePreviews = 0)]_vars

\* a drag from (0,0) released at (2,0.2), which snaps to (2,0): wide enough,
\* no depth
C15_Witness ==
  /\ last.op = "sketchPointerUp"
  /\ last.a = << <<0, 0>>, <<40, 4>> >>
  /\ sm.sketchMode.mode = "sketch-rect"
  /\ sm.sketchMode.listeners
  /\ sm.sketchMode.startPoint = NoPoint

\* C16: a pointer-up that ends a rectangle drag whose snapped start and end
\* points differ by at least 0.1 in x and in z registers exactly one new
\* object, a Rectangle in the scene, whose footprint measures |dx| by |dz|.
C16_RectangleRegistersOneObject ==
  [][(/\ last'.op = "sketchPointerUp"
      /\ Dragging(sm)
      /\ sm.sketchMode.mode = "sketch-rect"
      /\ last'.a[2] # NoPoint
      /\ Extent(sm.sketchMode.startPoint, SnappedEnd(last'.a[2]), 1) >= 2
      /\ Extent(sm.sketchMode.startPoint, SnappedEnd(last'.a[2]), 2) >= 2)
     => (/\ sm.nextId \notin sm.objects
         /\ sm'.objects = sm.objects \cup {sm.nextId}
         /\ sm'.sceneChildren = sm.sceneChildren \cup {sm.nextId}
         /\ sm'.objType[sm.nextId] = "Rectangle"
         /\ sm'.footprint[sm.nextId].x1 - sm'.footprint[sm.nextId].x0
              = Extent(sm.sketchMode.startPoint, SnappedEnd(last'.a[2]), 1)
         /\ sm'.footprint[sm.nextId].z1 - sm'.footprint[sm.nextId].z0
              = Extent(sm.sketchMode.startPoint, SnappedEnd(last'.a[2]), 2)
         /\ \A i \in sm.objects : sm'.footprint[i] = sm.footprint[i])]_vars

\* the drag from (0,0) released at (2.2,2.8), which snaps to (2,3), has made
\* the first object, of footprint 2 by 3 (40 by 60 units)
C16_Witness ==
  /\ last.op = "sketchPointerUp"
  /\ last.a = << <<0, 0>>, <<44, 56>> >>
  /\ sm.objects = {1}
  /\ sm.objType[1] = "Rectangle"
  /\ sm.footprint[1].x1 - sm.footprint[1].x0 = 40
  /\ sm.footprint[1].z1 - sm.footprint[1].z0 = 60

\* C17: at most one preview node is in the scene, it is the one the session
\* references, and there is one only while a start point is set; so every
\* way out of Dragging leaves no preview node.
C17_PreviewOnlyWhileDragging ==
  /\ sm.scenePreviews \in {0, 1}
  /\ (sm.scenePreviews = 1) <=> (sm.sketchMode.preview # "null")
  /\ (sm.scenePreviews = 1) => Dragging(sm)

\* a second pointer-move of a drag: the preview was replaced, one is left
C17_Witness ==
  /\ last.op = "sketchPointerMove"
  /\ last.a[1] # NoPoint
  /\ sm.scenePreviews = 1
  /\ sm.nextId > 1

\* C18: every setSketchMode call leaves no start point and no preview, from
\* whatever state; after setSketchMode('none') the mode is none, the handlers
\* are unregistered and the cursor is reset; and while the handlers are
\* unregistered a pointer event changes nothing of the manager.
C18_DisableAndSwitchTearDown ==
  [][/\ (last'.op = "setSketchMode")
          => (/\ sm'.sketchMode.startPoint = NoPoint
              /\ sm'.sketchMode.preview = "null"
              /\ sm'.scenePreviews = 0
              /\ sm'.objects = sm.objects)
     /\ (last'.op = "setSketchMode" /\ last'.a[1] = "none")
          => (/\ sm'.sketchMode.mode = "none"
              /\ ~sm'.sketchMode.listeners
              /\ sm'.sketchMode.cursor = "")
     /\ (/\ last'.op \in {"sketchPointerDown", "sketchPointerMove", "sketchPointerUp"}
         /\ sm.sketchMode.mode = "none")
          => sm' = sm]_vars

\* a mode was switched in the middle of a drag
C18_Witness ==
  /\ last.op = "setSketchMode"
  /\ last.a[1] = "sketch-circle"
  /\ last.a[2] # NoPoint
  /\ sm.sketchMode.mode = "sketch-circle"
  /\ sm.sketchMode.startPoint = NoPoint
  /\ sm.objects # {}

\* C19: the mode is none, rectangle or circle, and the handlers are registered
\* and the cursor is the crosshair exactly when the mode is rectangle or circle.
C19_ModeInRange ==
  /\ sm.sketchMode.mode \in {"none", "sketch-rect", "sketch-circle"}
  /\ (sm.sketchMode.listeners /\ sm.sketchMode.cursor = "crosshair")
       <=> (sm.sketchMode.mode \in {"sketch-rect", "sketch-circle"})

(***************************************************************************)
(* Import: documents arriving at a registry that objects were added to     *)
(***************************************************************************)
ImportSceneFromJson ==
  /\ ~sm.disposed
  /\ \E doc \in Docs :
       /\ sm.nextId + Cardinality({i \in 1..Len(doc.objects) : doc.objects[i] = "box"})
            <= MaxIds + 1
       /\ Step("importSceneFromJson", importSceneFromJson(sm, doc), Len(doc.objects))

NextImport ==
  \/ AddBox
  \/ SelectObject
  \/ ImportScene
  \/ ImportSceneFromJson

SpecImport == Init /\ [][NextImport]_vars

\* C20: whatever the registry holds, importing a document that does not parse
\* or whose objects are missing or no array reports failure (importScene
\* returns false, importSceneFromJson throws) and leaves the manager, its
\* registry and scene graph included, as it was.
C20_MalformedImportChangesNothing ==
  \A doc \in Docs :
    doc.kind # "ok" =>
      /\ importScene(sm, doc).ret.kind = "false"
      /\ ~importScene(sm, doc).threw
      /\ importScene(sm, doc).st = sm
      /\ importSceneFromJson(sm, doc).threw
      /\ importSceneFromJson(sm, doc).st = sm

\* importScene has just returned false on a registry that holds an object
C20_Witness ==
  /\ last.op = "importScene"
  /\ last.ret.kind = "false"
  /\ sm.objects # {}
  /\ sm.sceneChildren = sm.objects

\* C21: a successful import leaves none of the objects registered before it
\* and registers exactly one object per document entry of a recognised type,
\* an entry of another type being skipped; on both import entry points.
C21_ImportReplacesRegistry ==
  \A doc \in Docs :
    (/\ doc.kind = "ok"
     /\ sm.nextId + Len(doc.objects) <= MaxIds + 1)
    => /\ importScene(sm, doc).ret.kind = "true"
       /\ importScene(sm, doc).st.objects \cap sm.objects = {}
       /\ Cardinality(importScene(sm, doc).st.objects) = Recognised(doc)
       /\ ~importSceneFromJson(sm, doc).threw
       /\ importSceneFromJson(sm, doc).st.objects \cap sm.objects = {}
       /\ Cardinality(importSceneFromJson(sm, doc).st.objects)
            = Cardinality({i \in 1..Len(doc.objects) : doc.objects[i] = "box"})

\* the same statement for SceneManager.importScene alone
C21_ImportSceneReplacesRegistry ==
  \A doc \in Docs :
    (/\ doc.kind = "ok"
     /\ sm.nextId + Len(doc.objects) <= MaxIds + 1)
    => /\ importScene(sm, doc).ret.kind = "true"
       /\ importScene(sm, doc).st.objects \cap sm.objects = {}
       /\ Cardinality(importScene(sm, doc).st.objects) = Recognised(doc)

\* C22: importing what exportScene wrote gives as many objects as before, and
\* as many of every type.  (The meshes of before are gone after the import,
\* so the rebuilt ones take the identifiers from 1 on.)
C22_RoundTripKeepsObjects ==
  LET r == importScene([sm EXCEPT !.nextId = 1], exportScene(sm))
  IN /\ r.ret.kind = "true"
     /\ Cardinality(r.st.objects) = Cardinality(sm.objects)
     /\ \A ty \in {"Box", "Rectangle", "Circle"} :
          Cardinality({i \in r.st.objects : r.st.objType[i] = ty})
            = Cardinality({i \in sm.objects : sm.objType[i] = ty})

\* C30: dispose() ends without an error and leaves the registry empty, and
\* once the manager is disposed no setup started before creates a
\* transform-controls instance or adds one to the scene.
C30_DisposeEndsActivity ==
  [][/\ (last'.op = "dispose") => (~last'.threw /\ sm'.objects = {})
     /\ sm.disposed => (sm'.tcCount = sm.tcCount /\ sm'.tcScene \subseteq sm.tcScene)]_vars

(***************************************************************************)
(* Transform-controls initialisation, await by await.  geo holds what is   *)
(* outside the manager: whether scene, camera and dom element are there    *)
(* (prereq; nothing in the sources ever removes them), whether             *)
(* `await transformControlsPromise` yields a class whose constructor       *)
(* succeeds (constructs), whether the module's promise is still pending,   *)
(* and where every call of setupTransformControls stands:                  *)
(*   chain    the initializeTransformControls chain: "frame" (waiting for  *)
(*            the animation frame or the retry timeout), "await" (at       *)
(*            await transformControlsPromise), "sleep" (at the one-second  *)
(*            wait of the catch block), "done" (setup returned true);      *)
(*   keyAwait / keySleep  the calls made by onKeyDown at the same awaits.  *)
(* failed records that an attempt has failed.  A continuation of a settled *)
(* promise runs before any other event (GizmoQuiet).  A disposed instance  *)
(* that nothing references is gone: tcCount is the largest identifier in   *)
(* use.                                                                    *)
(***************************************************************************)
GizmoQuiet == geo.promise = "pending" \/ (geo.chain # "await" /\ geo.keyAwait = 0)

\* setupTransformControls from its call to its first await or early return
setupEnter(s) ==
  IF ~geo.prereq THEN s
  ELSE LET s1 == setupTransformControlsStart(s)
       IN [s1 EXCEPT !.tcCount =
             IF s1.tcScene = {} THEN 0
             ELSE CHOOSE m \in s1.tcScene : \A n \in s1.tcScene : n <= m]

\* setupTransformControls from `await transformControlsPromise` on: new TC and
\* scene.add, or the throw that leads to the catch block
setupContinue(s) ==
  IF geo.constructs THEN setupTransformControlsResume(s)
  ELSE [s EXCEPT !.setupPending = @ - 1]

InitGizmo ==
  /\ sm = [InitSM EXCEPT !.tcObject = [t \in 1..(MaxKeys + 1) |-> 0]]
  /\ last = InitLast
  /\ selection = InitSelection
  /\ legacy = InitLegacy
  /\ geo \in {[phase |-> "gizmo", prereq |-> p, constructs |-> c, promise |-> pr,
               chain |-> "frame", keyAwait |-> 0, keySleep |-> 0, failed |-> FALSE] :
                p \in BOOLEAN, c \in BOOLEAN, pr \in {"pending", "settled"}}

\* the animation frame or the retry timeout of initializeTransformControls
GizmoInitFrame ==
  /\ GizmoQuiet /\ geo.chain = "frame"
  /\ sm' = [setupEnter(sm) EXCEPT !.initStarted = TRUE]
  /\ geo' = IF geo.prereq THEN [geo EXCEPT !.chain = "await"]
            ELSE [geo EXCEPT !.failed = TRUE]
  /\ UNCHANGED <<last, selection, legacy>>

GizmoInitResume ==
  /\ geo.promise = "settled" /\ geo.chain = "await"
  /\ sm' = setupContinue(sm)
  /\ geo' = IF geo.constructs THEN [geo EXCEPT !.chain = "done"]
            ELSE [geo EXCEPT !.chain = "sleep", !.failed = TRUE]
  /\ UNCHANGED <<last, selection, legacy>>

\* a catch block that gives up instead of trying again
GizmoInitWakeGivesUp ==
  /\ GizmoQuiet /\ geo.chain = "sleep"
  /\ geo' = [geo EXCEPT !.chain = "done"]
  /\ UNCHANGED <<sm, last, selection, legacy>>

\* the second has passed: return this.setupTransformControls(); a false goes
\* back to initializeTransformControls, which sets its retry timeout
GizmoInitWake ==
  /\ GizmoQuiet /\ geo.chain = "sleep"
  /\ sm' = setupEnter(sm)
  /\ geo' = IF geo.prereq THEN [geo EXCEPT !.chain = "await"]
            ELSE [geo EXCEPT !.chain = "frame"]
  /\ UNCHANGED <<last, selection, legacy>>

\* onKeyDown: without controls it calls setupTransformControls and returns
GizmoKeyDown ==
  /\ GizmoQuiet
  /\ sm.transformControls = 0
  /\ geo.keyAwait + geo.keySleep < MaxKeys
  /\ sm' = setupEnter(sm)
  /\ geo' = IF geo.prereq THEN [geo EXCEPT !.keyAwait = @ + 1]
            ELSE [geo EXCEPT !.failed = TRUE]
  /\ UNCHANGED <<last, selection, legacy>>

GizmoKeyResume ==
  /\ geo.promise = "settled" /\ geo.keyAwait > 0
  /\ sm' = setupContinue(sm)
  /\ geo' = IF geo.constructs THEN [geo EXCEPT !.keyAwait = @ - 1]
            ELSE [geo EXCEPT !.keyAwait = @ - 1, !.keySleep = @ + 1, !.failed = TRUE]
  /\ UNCHANGED <<last, selection, legacy>>

GizmoKeyWake ==
  /\ GizmoQuiet /\ geo.keySleep > 0
  /\ sm' = setupEnter(sm)
  /\ geo' = IF geo.prereq THEN [geo EXCEPT !.keySleep = @ - 1, !.keyAwait = @ + 1]
            ELSE [geo EXCEPT !.keySleep = @ - 1]
  /\ UNCHANGED <<last, selection, legacy>>

\* what happens around the manager
GizmoEnvironment ==
  /\ GizmoQuiet
  /\ \/ ~geo.prereq /\ geo' = [geo EXCEPT !.prereq = TRUE]
     \/ geo' = [geo EXCEPT !.constructs = ~@]
     \/ geo.promise = "pending" /\ geo' = [geo EXCEPT !.promise = "settled"]
  /\ UNCHANGED <<sm, last, selection, legacy>>

NextGizmo ==
  \/ GizmoInitFrame
  \/ GizmoInitResume
  \/ GizmoInitWake
  \/ GizmoKeyDown
  \/ GizmoKeyResume
  \/ GizmoKeyWake
  \/ GizmoEnvironment
  \/ (GizmoQuiet /\ AddBox)
  \/ (GizmoQuiet /\ SelectObject)

\* frames and timeouts come, continuations of a settled promise run
SpecGizmo ==
  /\ InitGizmo /\ [][NextGizmo]_vars
  /\ WF_vars(GizmoInitFrame) /\ WF_vars(GizmoInitResume) /\ WF_vars(GizmoInitWake)
  /\ WF_vars(GizmoKeyResume) /\ WF_vars(GizmoKeyWake)

\* C23: if from some moment on scene, camera and dom element are there, the
\* class is loaded and its constructor succeeds, then from some moment on the
\* manager has its transform controls, in the scene; and a selectObject made
\* while there are no controls records the selection and applies the
\* highlight material, with nothing attached to any controls.
C23_GizmoEventuallyReady ==
  /\ (<>[](geo.prereq /\ geo.constructs /\ geo.promise = "settled"))
       => <>[](sm.transformControls # 0 /\ sm.transformControls \in sm.tcScene)
  /\ [][(last'.op = "selectObject" /\ last' # last /\ last'.a # 0
           /\ sm.transformControls = 0)
        => (/\ ~last'.threw
            /\ sm'.selected.object = last'.a
            /\ sm'.material[last'.a] = HighlightMaterial
            /\ \A tc \in DOMAIN sm'.tcObject : sm'.tcObject[tc] = 0)]_vars

\* an attempt failed, the controls are there, and an object selected while
\* there were none is highlighted and not attached
C23_Witness ==
  /\ geo.failed
  /\ geo.chain = "done"
  /\ sm.transformControls # 0
  /\ sm.selected.object # 0
  /\ sm.material[sm.selected.object] = HighlightMaterial
  /\ sm.tcObject[sm.transformControls] = 0

\* C29: the transform-controls instances in the scene are at most the one the
\* manager references.
C29_OneInstanceInScene ==
  sm.tcScene \subseteq {sm.transformControls}

\* the state of the sketch session: Disabled, Armed or Dragging
SketchState(s) ==
  IF s.sketchMode.mode = "none" THEN "Disabled"
  ELSE IF s.sketchMode.startPoint = NoPoint THEN "Armed" ELSE "Dragging"

\* C28: a pointer event never changes the mode; a pointer-down that meets the
\* ground plane takes an enabled session to Dragging from the snapped point
\* and any other pointer-down changes nothing; a pointer-move or pointer-up
\* outside Dragging changes nothing; a pointer-up in Dragging leaves the
\* session Armed in the same mode without start point and preview, whether
\* or not an object was made; a disabled session has no start point, and
\* setSketchMode leads to Armed or Disabled.
C28_SketchTransitions ==
  [][/\ SketchState(sm') = "Disabled" => sm'.sketchMode.startPoint = NoPoint
     /\ (last'.op = "setSketchMode") => SketchState(sm') \in {"Disabled", "Armed"}
     /\ (last'.op \in {"sketchPointerDown", "sketchPointerMove", "sketchPointerUp"})
          => sm'.sketchMode.mode = sm.sketchMode.mode
     /\ (last'.op = "sketchPointerDown")
          => IF SketchState(sm) # "Disabled" /\ last'.a[2] # NoPoint
             THEN /\ SketchState(sm') = "Dragging"
                  /\ sm'.sketchMode.startPoint = SnappedEnd(last'.a[2])
                  /\ sm'.objects = sm.objects
             ELSE sm' = sm
     /\ (last'.op \in {"sketchPointerMove", "sketchPointerUp"}
           /\ SketchState(sm) # "Dragging")
          => sm' = sm
     /\ (last'.op = "sketchPointerMove" /\ SketchState(sm) = "Dragging")
          => (/\ sm'.sketchMode.startPoint = sm.sketchMode.startPoint
              /\ sm'.objects = sm.objects)
     /\ (last'.op = "sketchPointerUp" /\ SketchState(sm) = "Dragging")
          => (/\ SketchState(sm') = "Armed"
              /\ sm'.sketchMode.preview = "null"
              /\ sm'.sketchMode.listeners)]_vars

\* a circle drag released where it began: nothing was made, the session is
\* Armed again
C28_Witness ==
  /\ last.op = "sketchPointerUp"
  /\ last.a = << <<0, 0>>, <<1, 1>> >>
  /\ sm.sketchMode.mode = "sketch-circle"
  /\ SketchState(sm) = "Armed"
  /\ sm.objects = {}


(***************************************************************************)
(* Face derivation of analyzeGeometry (part_007) and the lookup of the     *)
(* face of a triangle.  A face is [id, triangleIndices]; the id j stands   *)
(* for the string 'f' + j.  The triangle-to-face cache is a function from  *)
(* triangle indices to ids, NoFaceMap while analyzeGeometry has not run.   *)
(***************************************************************************)
MaxFaceTris == 4

NullFace == -1

\* part_007 lines 189-232: one face per group, ids f0, f1, ... in group
\* order, with the triangles start/3 .. start/3 + count/3 - 1 of the group
analyzeFaces(groups) ==
  [j \in 1..Len(groups) |->
     [id |-> j - 1,
      triangleIndices |->
        [t \in 1..(groups[j].count \div 3) |-> (groups[j].start \div 3) + t - 1]]]

\* part_007 lines 57-65: map.set(triIndex, face.id) face after face, so the
\* last face that lists a triangle is the one the Map keeps
buildTriangleToFaceMap(faces) ==
  LET listing(t) == {j \in 1..Len(faces) :
                       \E k \in 1..Len(faces[j].triangleIndices) :
                         faces[j].triangleIndices[k] = t}
      keys == UNION {{faces[j].triangleIndices[k] :
                        k \in 1..Len(faces[j].triangleIndices)} :
                     j \in 1..Len(faces)}
  IN [t \in keys |->
        faces[CHOOSE j \in listing(t) : \A i \in listing(t) : i <= j].id]

\* part_007 lines 156-162: null while the geometry has no cached map, and
\* null for a triangle the map has no entry for
getFaceIdFromTriangle(g, triangleIndex) ==
  IF ~g.hasMap THEN NullFace
  ELSE IF triangleIndex \in DOMAIN g.triangleMap THEN g.triangleMap[triangleIndex]
       ELSE NullFace

\* the group ranges that cut n triangles into consecutive runs: the run of
\* triangle t is cut[t], which starts at 1 and goes up by at most one
GroupRanges(n) ==
  {[j \in 1..(IF n = 0 THEN 0 ELSE cut[n]) |->
      [start |-> 3 * ((CHOOSE t \in 1..n : cut[t] = j /\ \A u \in 1..n : cut[u] = j => t <= u) - 1),
       count |-> 3 * Cardinality({t \in 1..n : cut[t] = j})]] :
     cut \in {c \in [1..n -> 1..n] :
                /\ n > 0 => c[1] = 1
                /\ \A t \in 2..n : c[t] \in {c[t - 1], c[t - 1] + 1}}}

\* geometries of up to maxTris triangles, indexed or not, without groups or
\* with group ranges that cover the buffer
FaceInputs(maxTris) ==
  UNION {{[phase |-> "input", indexed |-> ix,
           index |-> IF ix THEN [k \in 1..(3 * n) |-> k - 1] ELSE <<>>,
           count |-> 3 * n, groups |-> gs, faces |-> <<>>,
           hasMap |-> FALSE, triangleMap |-> <<>>, triangle |-> 0,
           faceId |-> NullFace] :
            ix \in BOOLEAN, gs \in {<<>>} \cup GroupRanges(n)} : n \in 0..maxTris}

InitFaces ==
  /\ sm = InitSM
  /\ last = InitLast
  /\ selection = InitSelection
  /\ legacy = InitLegacy
  /\ geo \in FaceInputs(MaxFaceTris)

\* analyzeGeometry(geometry): the faces, and the cache entry of line 283
AnalyzeFaces ==
  /\ geo.phase = "input"
  /\ LET faces == analyzeFaces(groupsOf(geo)) IN
       geo' = [geo EXCEPT !.phase = "analysed", !.faces = faces,
                          !.hasMap = TRUE,
                          !.triangleMap = buildTriangleToFaceMap(faces)]
  /\ UNCHANGED <<sm, last, selection, legacy>>

\* getFaceIdFromTriangle(geometry, t) of a triangle of the geometry or of
\* the index one past its last triangle, before or after the analysis
LookupFace ==
  /\ geo.phase \in {"input", "analysed"}
  /\ \E t \in 0..triangleCount(geo) :
       geo' = [geo EXCEPT !.phase = IF geo.hasMap THEN "looked-up" ELSE "missed",
                          !.triangle = t,
                          !.faceId = getFaceIdFromTriangle(geo, t)]
  /\ UNCHANGED <<sm, last, selection, legacy>>

NextFaces ==
  \/ AnalyzeFaces
  \/ LookupFace

SpecFaces == InitFaces /\ [][NextFaces]_vars

\* the faces of geo that list triangle t
FacesOf(t) ==
  {j \in 1..Len(geo.faces) :
     \E k \in 1..Len(geo.faces[j].triangleIndices) :
       geo.faces[j].triangleIndices[k] = t}

\* C27: face derivation assigns every triangle to exactly one face: with
\* group ranges the triangles of one group form one face, without them each
\* triangle is its own face; and after analysis the lookup of a triangle
\* returns the id of the face whose triangle list contains it.
C27_EveryTriangleInOneFace ==
  /\ geo.hasMap =>
       /\ \A t \in 0..(triangleCount(geo) - 1) : Cardinality(FacesOf(t)) = 1
       /\ Len(geo.groups) > 0 =>
            /\ Len(geo.faces) = Len(geo.groups)
            /\ \A j \in 1..Len(geo.groups) : \A t \in 0..(triangleCount(geo) - 1) :
                 (j \in FacesOf(t)) <=>
                   (geo.groups[j].start <= 3 * t
                      /\ 3 * t < geo.groups[j].start + geo.groups[j].count)
       /\ Len(geo.groups) = 0 =>
            /\ Len(geo.faces) = triangleCount(geo)
            /\ \A j \in 1..Len(geo.faces) : Len(geo.faces[j].triangleIndices) = 1
  /\ (geo.phase = "looked-up" /\ geo.triangle < triangleCount(geo)) =>
       \E j \in FacesOf(geo.triangle) : geo.faces[j].id = geo.faceId


(***************************************************************************)
(* Edge picking on a flat quad.  The quad is a square of two coplanar      *)
(* triangles in the plane z = 0 of an object with identity matrixWorld;    *)
(* the pick point lies in that plane and the pick ray is perpendicular to  *)
(* it.  Positions are in units of 0.05.  A squared distance is a fraction  *)
(* <<numerator, denominator>>, so that no square root or division is       *)
(* rounded.  An edge is the pair <<a, b>> of its vertex indices, <<>> is   *)
(* null.                                                                   *)
(***************************************************************************)
MaxSide == 4

\* threshold = 0.1, the default of both findClosestEdge functions
DefaultThreshold == 2

QuadPosition(side) ==
  [v \in 0..3 |-> IF v = 0 THEN <<0, 0>> ELSE IF v = 1 THEN <<side, 0>>
                  ELSE IF v = 2 THEN <<side, side>> ELSE <<0, side>>]

NormSq(x, y) == x * x + y * y

\* d1 < d2 for two squared distances
DistLess(d1, d2) == d1[1] * d2[2] < d2[1] * d1[2]

\* point.distanceTo(vertex), squared
VertexDistSq(p, v) == <<NormSq(p[1] - v[1], p[2] - v[2]), 1>>

\* point.distanceTo(edgeCenter) with edgeCenter = (v1 + v2) / 2, squared
CenterDistSq(p, v1, v2) ==
  <<NormSq(2 * p[1] - v1[1] - v2[1], 2 * p[2] - v1[2] - v2[2]), 4>>

\* Ray.distanceSqToSegment(v1, v2) of the ray through p perpendicular to
\* the plane of v1 and v2: the squared distance from p to the segment
SegmentDistSq(p, v1, v2) ==
  LET len2 == NormSq(v2[1] - v1[1], v2[2] - v1[2])
      dot == (p[1] - v1[1]) * (v2[1] - v1[1]) + (p[2] - v1[2]) * (v2[2] - v1[2])
  IN IF dot <= 0 THEN VertexDistSq(p, v1)
     ELSE IF dot >= len2 THEN VertexDistSq(p, v2)
     ELSE <<NormSq(p[1] - v1[1], p[2] - v1[2]) * len2 - dot * dot, len2>>

\* selection.js lines 84-101: the vertex closest to the point, the first
\* one among equally close vertices
closestVertexIndex(g, point) ==
  CHOOSE i \in DOMAIN g.pos :
    \A j \in DOMAIN g.pos :
      /\ ~DistLess(VertexDistSq(point, g.pos[j]), VertexDistSq(point, g.pos[i]))
      /\ (j < i) => DistLess(VertexDistSq(point, g.pos[i]), VertexDistSq(point, g.pos[j]))

\* selection.js lines 107-120: the three edges of every triangle that has
\* the vertex, as sorted pairs, triangle after triangle
RECURSIVE connectedEdges(_, _, _, _)
connectedEdges(g, vertex, i, edges) ==
  IF i >= triangleCount(g) THEN edges
  ELSE LET v == TriangleVertices(g, i)
           pair(a, b) == IF a # b THEN << <<Min(a, b), Max(a, b)>> >> ELSE <<>>
       IN connectedEdges(g, vertex, i + 1,
            IF vertex \in {v[1], v[2], v[3]}
            THEN edges \o pair(v[1], v[2]) \o pair(v[2], v[3]) \o pair(v[3], v[1])
            ELSE edges)

\* selection.js line 140: Array.from(new Set(...)) keeps first occurrences
RECURSIVE uniqueEdges(_, _, _)
uniqueEdges(edges, i, unique) ==
  IF i > Len(edges) THEN unique
  ELSE uniqueEdges(edges, i + 1,
         IF \E k \in 1..Len(unique) : unique[k] = edges[i] THEN unique
         ELSE Append(unique, edges[i]))

\* selection.js lines 143-169: the scan for the edge whose centre is closest
RECURSIVE closestCenterLoop(_, _, _, _, _, _)
closestCenterLoop(g, point, edges, i, minDistance, closestEdge) ==
  IF i > Len(edges) THEN closestEdge
  ELSE LET distance == CenterDistSq(point, g.pos[edges[i][1]], g.pos[edges[i][2]])
       IN IF DistLess(distance, minDistance)
          THEN closestCenterLoop(g, point, edges, i + 1, distance, edges[i])
          ELSE closestCenterLoop(g, point, edges, i + 1, minDistance, closestEdge)

\* SelectionManager.findClosestEdge(intersection) with the default threshold
SelectionManager_findClosestEdge(g, point) ==
  closestCenterLoop(g, point,
    uniqueEdges(connectedEdges(g, closestVertexIndex(g, point), 0, <<>>), 1, <<>>),
    1, <<DefaultThreshold * DefaultThreshold, 1>>, <<>>)

\* part_007 lines 116-145: edges.forEach with distanceSq < minDistanceSq
RECURSIVE closestSegmentLoop(_, _, _, _, _, _)
closestSegmentLoop(g, point, edges, i, minDistanceSq, closestEdge) ==
  IF i > Len(edges) THEN closestEdge
  ELSE LET distanceSq == SegmentDistSq(point, g.pos[edges[i].v1], g.pos[edges[i].v2])
       IN IF DistLess(distanceSq, minDistanceSq)
          THEN closestSegmentLoop(g, point, edges, i + 1, distanceSq,
                                  <<edges[i].v1, edges[i].v2>>)
          ELSE closestSegmentLoop(g, point, edges, i + 1, minDistanceSq, closestEdge)

\* findClosestEdge(ray, origin, edges, object) of part_007 with the default
\* threshold
Analyzer_findClosestEdge(g, point, edges) ==
  closestSegmentLoop(g, point, edges, 1,
                     <<DefaultThreshold * DefaultThreshold, 1>>, <<>>)

\* SceneManager.raycastEdges for the edge list of one object: the first edge
\* whose distanceToEdge is below this.edgeThreshold
RECURSIVE raycastEdges(_, _)
raycastEdges(edges, i) ==
  IF i > Len(edges) THEN [threw |-> FALSE, edge |-> NullEdge]
  ELSE LET d == distanceToEdge(edges[i]) IN
       IF d.threw THEN [threw |-> TRUE, edge |-> NullEdge]
       ELSE IF d.distance < EdgeThreshold THEN [threw |-> FALSE, edge |-> edges[i]]
       ELSE raycastEdges(edges, i + 1)

\* the quad split along either diagonal, with both triangles in the plane
PickInputs(maxSide) ==
  {[phase |-> "input", indexed |-> TRUE, index |-> ib, count |-> 0,
    normals |-> <<0, 0>>, pos |-> QuadPosition(side), entry |-> "", point |-> <<0, 0>>,
    list |-> <<>>, picked |-> <<>>, threw |-> FALSE] :
     ib \in {<<0, 1, 2, 0, 2, 3>>, <<1, 2, 3, 1, 3, 0>>}, side \in {2, maxSide}}

InitPick ==
  /\ sm = InitSM
  /\ last = InitLast
  /\ selection = InitSelection
  /\ legacy = InitLegacy
  /\ geo \in PickInputs(MaxSide)

\* the points of the quad a click can hit
PickPoints == {p \in (0..MaxSide) \X (0..MaxSide) :
                 p[1] <= geo.pos[2][1] /\ p[2] <= geo.pos[2][2]}

PickStep(entry, point, list, picked, threw) ==
  /\ geo.phase = "input"
  /\ geo' = [geo EXCEPT !.phase = "picked", !.entry = entry, !.point = point,
                        !.list = list, !.picked = picked, !.threw = threw]
  /\ UNCHANGED <<sm, last, selection, legacy>>

\* SelectionManager.findClosestEdge on an object whose edge list is the
\* meta.edges of addObject
PickSelectionManager ==
  \E p \in PickPoints :
    PickStep("SelectionManager.findClosestEdge", p, buildEdgesFromGeometry(geo),
             SelectionManager_findClosestEdge(geo, p), FALSE)

\* findClosestEdge of part_007 on the edges of analyzeGeometry
PickAnalyzer ==
  \E p \in PickPoints :
    LET edges == analyzeEdges(geo, 0, <<>>) IN
    PickStep("findClosestEdge", p,
             [k \in 1..Len(edges) |-> <<edges[k].v1, edges[k].v2>>],
             Analyzer_findClosestEdge(geo, p, edges), FALSE)

\* SceneManager.findClosestEdge(object, point, objectMeta), the definition in
\* force, on meta.edges
PickSceneManager ==
  \E p \in PickPoints :
    LET edges == buildEdgesFromGeometry(geo)
        r == findClosestEdge(edges)
    IN PickStep("SceneManager.findClosestEdge", p, edges,
                IF r.edge = NullEdge THEN <<>> ELSE r.edge, r.threw)

\* SceneManager.raycastEdges(clientX, clientY) with one object registered
PickRaycastEdges ==
  \E p \in PickPoints :
    LET edges == buildEdgesFromGeometry(geo)
        r == raycastEdges(edges, 1)
    IN PickStep("SceneManager.raycastEdges", p, edges,
                IF r.edge = NullEdge THEN <<>> ELSE r.edge, r.threw)

NextPick ==
  \/ PickSelectionManager
  \/ PickAnalyzer
  \/ PickSceneManager
  \/ PickRaycastEdges

SpecPick == InitPick /\ [][NextPick]_vars

\* the squared distance from the pick point to edge e of geo
EdgeDistSq(e) == SegmentDistSq(geo.point, geo.pos[e[1]], geo.pos[e[2]])

WithinThreshold(e) == DistLess(EdgeDistSq(e), <<DefaultThreshold * DefaultThreshold, 1>>)

\* C25: when several edges lie within the pick threshold the pick returns the
\* strictly closest one, and of two equally close candidates the one that
\* comes first in the object's edge list; when none lies within it the pick
\* returns null.  This holds at every edge-pick entry point.
C25_ClosestEdgeFirstOnTie ==
  geo.phase = "picked" =>
    /\ ~geo.threw
    /\ IF \E k \in 1..Len(geo.list) : WithinThreshold(geo.list[k])
       THEN \E k \in 1..Len(geo.list) :
              /\ geo.picked = geo.list[k]
              /\ WithinThreshold(geo.list[k])
              /\ \A j \in 1..Len(geo.list) :
                   /\ ~DistLess(EdgeDistSq(geo.list[j]), EdgeDistSq(geo.list[k]))
                   /\ (j < k) => DistLess(EdgeDistSq(geo.list[k]), EdgeDistSq(geo.list[j]))
       ELSE geo.picked = <<>>

\* C26: an edge returned by an edge pick is one of the hit object's
\* selectable edges (the boundary and crease edges of the classifier) and
\* lies within the distance threshold; the diagonal of the flat quad, a
\* smoothing seam, is never returned.
C26_PickedEdgeIsSelectable ==
  (geo.phase = "picked" /\ geo.picked # <<>>) =>
    /\ \E k \in 1..Len(buildEdgesFromGeometry(geo)) :
         buildEdgesFromGeometry(geo)[k] \in
           {geo.picked, <<geo.picked[2], geo.picked[1]>>}
    /\ WithinThreshold(geo.picked)


(***************************************************************************)
(* GPU-side resources of previews and highlights.  geo counts the          *)
(* resources that were created and not disposed: the BufferGeometry and    *)
(* the LineBasicMaterial of the sketch previews and the material clones of *)
(* highlightShape.  A preview is created with one geometry and one         *)
(* material (SketchMode.js lines 118-120 and 128-143), and clearPreview    *)
(* is the only code that takes a preview out of the scene; it calls        *)
(* preview.geometry.dispose() and nothing else (lines 88-94).              *)
(***************************************************************************)
MaxLive == 2

InitResources ==
  [phase |-> "resources", previewGeometries |-> 0, previewMaterials |-> 0,
   highlightMaterials |-> 0]

\* the previews a handler builds in state s: what it adds to the scene when
\* it starts without a preview to clear (fresh is its result from
\* clearPreview(s))
PreviewsCreated(s, fresh) ==
  fresh.scenePreviews - clearPreview(s).scenePreviews

\* the previews a handler clears in state s, each with a geometry.dispose()
\* (after is its result from s)
PreviewsCleared(s, after, fresh) ==
  s.scenePreviews + PreviewsCreated(s, fresh) - after.scenePreviews

\* the counts after a handler of the sketch mode ran in state s: no line of
\* SketchMode.js disposes a preview material
sketchResources(s, after, fresh, live) ==
  [live EXCEPT
     !.previewGeometries = @ + PreviewsCreated(s, fresh) - PreviewsCleared(s, after, fresh),
     !.previewMaterials = @ + PreviewsCreated(s, fresh)]

\* SceneManager.js lines 817-822: highlightShape(mesh) with a mesh clones
\* mesh.material; lines 808-814 put the previous material back and dispose
\* nothing.  selectShape reaches highlightShape(meta.mesh) unless
\* clearSelection throws.
shapeResources(r, live) ==
  IF r.threw THEN live ELSE [live EXCEPT !.highlightMaterials = @ + 1]

ResourceStep(op, r, a, live) ==
  /\ sm' = r.st
  /\ last' = Last(op, r, a)
  /\ geo' = live
  /\ UNCHANGED <<selection, legacy>>

ResourceRaw == {<<0, 0>>, <<44, 56>>, NoPoint}

ResourceSetSketchMode ==
  \E mode \in {"sketch-rect", "sketch-circle", "none"} :
    ResourceStep("setSketchMode", Ok(setSketchMode(sm, mode)), mode,
                 sketchResources(sm, setSketchMode(sm, mode),
                                 setSketchMode(clearPreview(sm), mode), geo))

ResourcePointerDown ==
  /\ sm.sketchMode.listeners
  /\ \E raw \in ResourceRaw :
       ResourceStep("sketchPointerDown", Ok(Sketch_onPointerDown(sm, raw)), raw,
                    sketchResources(sm, Sketch_onPointerDown(sm, raw),
                                    Sketch_onPointerDown(clearPreview(sm), raw), geo))

ResourcePointerMove ==
  /\ sm.sketchMode.listeners
  /\ geo.previewMaterials < MaxLive
  /\ \E raw \in ResourceRaw :
       ResourceStep("sketchPointerMove", Ok(Sketch_onPointerMove(sm, raw)), raw,
                    sketchResources(sm, Sketch_onPointerMove(sm, raw),
                                    Sketch_onPointerMove(clearPreview(sm), raw), geo))

ResourcePointerUp ==
  /\ sm.sketchMode.listeners
  /\ sm.nextId <= MaxIds
  /\ \E raw \in ResourceRaw :
       ResourceStep("sketchPointerUp", Ok(Sketch_onPointerUp(sm, raw)), raw,
                    sketchResources(sm, Sketch_onPointerUp(sm, raw),
                                    Sketch_onPointerUp(clearPreview(sm), raw), geo))

ResourceSelectShape ==
  /\ geo.highlightMaterials < MaxLive
  /\ \E o \in sm.objects :
       ResourceStep("selectShape", selectShape(sm, o), o,
                    shapeResources(selectShape(sm, o), geo))

ResourceClearSelection ==
  ResourceStep("clearSelection", clearSelection(sm), 0, geo)

InitResourceSession ==
  /\ sm = InitSM
  /\ last = InitLast
  /\ selection = InitSelection
  /\ legacy = InitLegacy
  /\ geo = InitResources

NextResources ==
  \/ ResourceSetSketchMode
  \/ ResourcePointerDown
  \/ ResourcePointerMove
  \/ ResourcePointerUp
  \/ ResourceSelectShape
  \/ ResourceClearSelection

SpecResources == InitResourceSession /\ [][NextResources]_vars

\* C24: every highlight material, overlay and sketch preview geometry and
\* material created by a selection or a sketch gesture is disposed by the
\* teardown that ends it: whenever no selection is held and no sketch drag is
\* under way, no created resource is left undisposed.
C24_NoResourceLeftUndisposed ==
  (IsIdle(sm) /\ ~Dragging(sm)) =>
    /\ geo.previewGeometries = 0
    /\ geo.previewMaterials = 0
    /\ geo.highlightMaterials = 0

====
